---- MODULE Spec2Model ----
(***************************************************************************)
(* Model of the two push handlers of naive-crawler-datamesh:               *)
(*   url_mapper/main.go      (Mapper: CrawlRequest -> N URLTask)           *)
(*   page_processor/main.go  (Processor: URLTask -> CrawlResult)           *)
(* Every network call (discovery API, Pub/Sub client creation, publish,    *)
(* page fetch) is a step whose outcome the environment chooses.            *)
(***************************************************************************)
EXTENDS Integers, Sequences, FiniteSets, TLC

\* ------------------------------------------------------------------ bounds
MaxLinks == 2      \* longest link list the discovery API returns
MaxLayers == 2     \* base64 layers wrapped around the inner payload
MaxTime == 2       \* values of the wall clock read by time.Now()
MaxRand == 1       \* values of the 4 random bytes read by rand.Read
MaxBody == 2       \* tokens in a fetched page body

\* ------------------------------------------------- HTTP status constants
StatusOK == 200
StatusBadRequest == 400
StatusMethodNotAllowed == 405
StatusInternalServerError == 500

\* a Go nil error
Nil == "<nil>"

Methods == {"POST", "GET"}

\* ------------------------------------------------------------ byte strings
\* A byte string is an inner text wrapped in `layers` base64 encodings.
\* The inner text is the empty string, something that is not JSON, or a
\* JSON object.
EmptyBytes == [layers |-> 0, text |-> [kind |-> "empty"]]

\* base64.StdEncoding.DecodeString: strips one layer; a JSON object or a
\* non-base64 text is rejected.
Base64Decode(b) ==
    IF b.layers > 0
    THEN [ok |-> TRUE, val |-> [b EXCEPT !.layers = b.layers - 1]]
    ELSE IF b.text.kind = "empty"
         THEN [ok |-> TRUE, val |-> b]
         ELSE [ok |-> FALSE, val |-> b]

Len0(b) == b.layers = 0 /\ b.text.kind = "empty"

\* DecodePushRequest that takes an undecodable body for an empty envelope
DecodePushRequest_Lenient(body) ==
    IF ~body.envelope THEN [ok |-> TRUE, data |-> EmptyBytes]
    ELSE IF ~body.hasData THEN [ok |-> TRUE, data |-> EmptyBytes]
    ELSE LET r == Base64Decode(body.data)
         IN  [ok |-> TRUE, data |-> IF r.ok THEN r.val ELSE EmptyBytes]

\* json.NewDecoder(r.Body).Decode(&pushReq): the body must be a JSON
\* envelope; encoding/json fills a []byte field from a base64 JSON string,
\* and rejects a string that is not base64.
DecodePushRequest(body) ==
    IF ~body.envelope THEN [ok |-> FALSE, data |-> EmptyBytes]
    ELSE IF ~body.hasData THEN [ok |-> TRUE, data |-> EmptyBytes]
    ELSE LET r == Base64Decode(body.data)
         IN  [ok |-> r.ok, data |-> IF r.ok THEN r.val ELSE EmptyBytes]

\* httpHandler lines 226-237: try base64 first, fall back to the raw bytes
PayloadBytes(d) ==
    IF Len0(d) THEN EmptyBytes
    ELSE LET r == Base64Decode(d)
         IN  IF r.ok THEN r.val ELSE d

\* json.Unmarshal(m.Data, &d): succeeds only on a JSON object
Unmarshal(b) ==
    IF b.layers = 0 /\ b.text.kind = "object"
    THEN [ok |-> TRUE, val |-> b.text.val]
    ELSE [ok |-> FALSE, val |-> <<>>]

\* ------------------------------------------------------------------ Mapper
Domains == {"", "example.com"}
UIDs == {"", "job-1"}
Urls == {"https://example.com/a", "https://example.com/b"}

\* InputMessage of the mapper; an absent "uid" key unmarshals to ""
MapperInputMessage == [domain : Domains, uid : UIDs]

MapperTexts ==
    {[kind |-> "garbage"]} \cup
    {[kind |-> "object", val |-> d] : d \in MapperInputMessage}

MapperBodies ==
    {[envelope |-> FALSE, hasData |-> FALSE, data |-> EmptyBytes],
     [envelope |-> TRUE, hasData |-> FALSE, data |-> EmptyBytes]} \cup
    {[envelope |-> TRUE, hasData |-> TRUE, data |-> [layers |-> n, text |-> t]] :
        n \in 0..MaxLayers, t \in MapperTexts}

HexDigit == <<"0", "1", "2", "3", "4", "5", "6", "7",
              "8", "9", "a", "b", "c", "d", "e", "f">>

\* hex.EncodeToString of the 4 random bytes (big-endian value n < 256)
EncodeToString(n) ==
    "000000" \o HexDigit[(n \div 16) + 1] \o HexDigit[(n % 16) + 1]

generateUID(now, rnd) ==
    "auto-" \o ToString(now) \o "-" \o EncodeToString(rnd)

\* Sequences over S of length at most n
RECURSIVE SeqsUpTo(_, _)
SeqsUpTo(S, n) ==
    IF n = 0 THEN {<<>>}
    ELSE LET shorter == SeqsUpTo(S, n - 1)
         IN  shorter \cup {Append(s, x) : s \in {t \in shorter : Len(t) = n - 1}, x \in S}

\* What the discovery API answers: a transport error, or a status code with
\* a body that decodes to a link list or does not decode.
ApiResponses ==
    {[transport |-> FALSE, code |-> StatusOK, decodes |-> TRUE, links |-> l] :
        l \in SeqsUpTo(Urls, MaxLinks)} \cup
    {[transport |-> FALSE, code |-> StatusOK, decodes |-> FALSE, links |-> <<>>],
     [transport |-> FALSE, code |-> 503, decodes |-> TRUE, links |-> <<>>],
     [transport |-> TRUE, code |-> 0, decodes |-> FALSE, links |-> <<>>]}

\* callFirecrawlAPI without the status check of lines 199-202
callFirecrawlAPI_NoStatusCheck(r) ==
    IF r.transport
    THEN [err |-> "failed to call Firecrawl API: connection refused", links |-> <<>>]
    ELSE IF ~r.decodes
    THEN [err |-> "failed to decode Firecrawl response: invalid character",
          links |-> <<>>]
    ELSE [err |-> Nil, links |-> r.links]

\* callFirecrawlAPI that reports an empty link list as an error
callFirecrawlAPI_EmptyIsError(r) ==
    IF r.transport
    THEN [err |-> "failed to call Firecrawl API: connection refused", links |-> <<>>]
    ELSE IF r.code # StatusOK
    THEN [err |-> "firecrawl API request failed with status " \o ToString(r.code) \o ": ",
          links |-> <<>>]
    ELSE IF ~r.decodes
    THEN [err |-> "failed to decode Firecrawl response: invalid character",
          links |-> <<>>]
    ELSE IF r.links = <<>>
    THEN [err |-> "no links discovered", links |-> <<>>]
    ELSE [err |-> Nil, links |-> r.links]

callFirecrawlAPI(r) ==
    IF r.transport
    THEN [err |-> "failed to call Firecrawl API: connection refused", links |-> <<>>]
    ELSE IF r.code # StatusOK
    THEN [err |-> "firecrawl API request failed with status " \o ToString(r.code) \o ": ",
          links |-> <<>>]
    ELSE IF ~r.decodes
    THEN [err |-> "failed to decode Firecrawl response: invalid character",
          links |-> <<>>]
    ELSE [err |-> Nil, links |-> r.links]

\* URLMessage with the uid and domain arguments exchanged
URLMessage_Swapped(l, uid, domain) == [url |-> l, uid |-> domain, domain |-> uid]

\* json.Marshal(URLMessage{URL: l, UID: uid, Domain: domain})
URLMessage(l, uid, domain) == [url |-> l, uid |-> uid, domain |-> domain]

VARIABLES
    mReq,        \* the inbound HTTP request
    mPc,         \* position of the invocation
    mD,          \* the parsed InputMessage (d)
    mGen,        \* number of generateUID calls
    mApi,        \* answers received from the discovery API
    mLinks,      \* apiResponse.Links
    mClient,     \* the pubsub client: "none", "open", "closed"
    mGo,         \* the publish goroutines launched so far
    mWg,         \* sync.WaitGroup counter
    mMu,         \* sync.Mutex: 0 when free, else the holder
    mErrs,       \* errs
    mAttempts,   \* topic.Publish calls made
    mPublished,  \* messages confirmed by the topic
    mErr,        \* error returned by ProcessPubSubPush
    mResp,       \* HTTP status written, 0 before the response
    mSent,       \* messages handed to topic.Publish
    mTopic,      \* the topic handle: "none", "open", "stopped"
    mBody,       \* the discovery response body: "none", "open", "closed"
    mAnswers,    \* answers the discovery API may give
    mDelivery,   \* 1 for the first delivery of the request, 2 for its redelivery
    mPrev,       \* what the first delivery left behind
    mCtx,        \* r.Context(): "live" or "cancelled"
    mPeer        \* whether the discovery API and the topic answer: "answers", "silent"

\* the queue and the discovery API, as the mapper sees them
menv == <<mAnswers, mDelivery, mPrev, mCtx, mPeer>>

\* what the invocation holds besides the client
mres == <<mTopic, mBody>>

mvars == <<mReq, mPc, mD, mGen, mApi, mLinks, mClient, mGo, mWg, mMu,
           mErrs, mAttempts, mPublished, mErr, mResp, mSent, mres, menv>>

VARIABLES
    pEnv,          \* CRAWLER_ID and DOMAIN_TO_CRAWL of the environment
    crawlerID,     \* package variable set by init()
    domainToCrawl, \* package variable set by init()
    pReq,          \* the inbound HTTP request
    pPc,           \* position of the invocation
    pD,            \* the parsed InputMessage (d)
    pFetches,      \* HTTP GETs issued
    pTarget,       \* what the target answered
    pRes,          \* result of convertURLToMarkdown
    pOutput,       \* the OutputMessage built
    pClient,       \* the pubsub client: "none", "open", "closed"
    pAttempts,     \* topic.Publish calls made
    pPublished,    \* messages confirmed by the topic
    pErr,          \* error returned by ProcessPubSubPush
    pResp,         \* HTTP status written, 0 before the response
    pTopic,        \* the topic handle: "none", "open", "stopped"
    pBody,         \* the fetched response body: "none", "open", "closed"
    pAnswers,      \* answers the fetched target may give
    pDelivery,     \* 1 for the first delivery of the request, 2 for its redelivery
    pPrev,         \* what the first delivery left behind
    pCtx,          \* r.Context(): "live" or "cancelled"
    pPeer          \* whether the target and the topic answer: "answers", "silent"

\* the queue and the fetched target, as the processor sees them
penv == <<pAnswers, pDelivery, pPrev, pCtx, pPeer>>

\* what the invocation holds besides the client
pres == <<pTopic, pBody>>

pvars == <<pEnv, crawlerID, domainToCrawl, pReq, pPc, pD, pFetches, pTarget,
           pRes, pOutput, pClient, pAttempts, pPublished, pErr, pResp, pres, penv>>

VARIABLES
    dPre,          \* what the prerequisite checks of the deployment script find
    dPc,           \* position of the deployment script
    SERVICE_NAME,  \* deploy_service / wait_for_service: the service at hand
    RETRY_COUNT,   \* deploy_service: failed attempts so far
    MEMORY_SIZE,   \* deploy_service: the --memory of the last attempt
    dOutcomes,     \* deploy_service: exit statuses of gcloud run deploy, in order
    dSleeps,       \* deploy_service: number of sleep 10 executed
    dRet,          \* deploy_service: return status, -1 before it returns
    WAIT_TIME,     \* wait_for_service: seconds waited
    dExit          \* exit status of the script, -1 while it runs

dvars == <<dPre, dPc, SERVICE_NAME, RETRY_COUNT, MEMORY_SIZE, dOutcomes, dSleeps,
           dRet, WAIT_TIME, dExit>>

VARIABLES
    cInv,          \* concurrent invocations of one handler: their local variables
    cTopic         \* what they have published, with the publishing invocation

cvars == <<cInv, cTopic>>

VARIABLES
    qCrawl,        \* the CrawlRequest message on the input topic and its state
    qLinks,        \* the links the discovery API knows for the domain
    qTasks,        \* URLTask messages on the URL topic that are not acknowledged
    qResults,      \* CrawlResults on the output topic
    qDeliveries,   \* deliveries of the CrawlRequest so far (the clock of the pipeline)
    qFails         \* failed calls so far

qvars == <<qCrawl, qLinks, qTasks, qResults, qDeliveries, qFails>>

\* the deployment script, the concurrent invocations and the pipeline
ovars == <<dvars, cvars, qvars>>

vars == <<mvars, pvars, ovars>>

\* the deployment script is not running
DeployIdle ==
    /\ dPre = [topics |-> 0, accounts |-> 0, tables |-> 0]
    /\ dPc = "idle"
    /\ SERVICE_NAME = ""
    /\ RETRY_COUNT = 0
    /\ MEMORY_SIZE = ""
    /\ dOutcomes = <<>>
    /\ dSleeps = 0
    /\ dRet = -1
    /\ WAIT_TIME = 0
    /\ dExit = -1

\* no concurrent invocations are running
ConcurrentIdle ==
    /\ cInv = <<>>
    /\ cTopic = {}

\* no message is in the pipeline
PipelineIdle ==
    /\ qCrawl = [status |-> "none"]
    /\ qLinks = <<>>
    /\ qTasks = {}
    /\ qResults = {}
    /\ qDeliveries = 0
    /\ qFails = 0

OthersIdle == DeployIdle /\ ConcurrentIdle /\ PipelineIdle

NoInput == [domain |-> "", uid |-> ""]

\* state of an invocation before it has done anything
MapperFresh ==
    /\ mD = NoInput
    /\ mGen = 0
    /\ mApi = <<>>
    /\ mLinks = <<>>
    /\ mClient = "none"
    /\ mGo = <<>>
    /\ mWg = 0
    /\ mMu = 0
    /\ mErrs = <<>>
    /\ mAttempts = 0
    /\ mPublished = <<>>
    /\ mErr = Nil
    /\ mResp = 0
    /\ mSent = {}
    /\ mTopic = "none"
    /\ mBody = "none"

\* nothing is left behind by an earlier delivery
NoMapperPrev == [links |-> <<>>, tasks |-> {}, published |-> <<>>, resp |-> 0]

\* the request is not cancelled and the mapper's peers answer its calls
MapperLive == mCtx = "live" /\ mPeer = "answers"

\* no request is delivered to the mapper
MapperIdle ==
    /\ mReq = [method |-> "GET", body |-> [envelope |-> FALSE, hasData |-> FALSE, data |-> EmptyBytes]]
    /\ mPc = "idle"
    /\ MapperFresh
    /\ mAnswers = {}
    /\ mDelivery = 1
    /\ mPrev = NoMapperPrev
    /\ MapperLive

\* StatusFor that reports a processing error as a bad request
StatusFor_BadRequest(err) == IF err # Nil THEN StatusBadRequest ELSE StatusOK

\* StatusFor that answers 200 whatever ProcessPubSubPush returned
StatusFor_AlwaysOK(err) == StatusOK

\* httpHandler lines 242-249: the status written for ProcessPubSubPush's result
StatusFor(err) == IF err # Nil THEN StatusInternalServerError ELSE StatusOK

MapperRespond(code, err) ==
    /\ mPc' = "done"
    /\ mErr' = err
    /\ mResp' = code

\* MapperAdmit without the empty-domain check of lines 93-96
MapperAdmit_NoDomainCheck(req) ==
    LET push == DecodePushRequest(req.body)
        in == Unmarshal(PayloadBytes(push.data))
    IN  IF req.method # "POST"
        THEN [code |-> StatusMethodNotAllowed, d |-> NoInput]
        ELSE IF ~push.ok
        THEN [code |-> StatusBadRequest, d |-> NoInput]
        ELSE IF ~in.ok
        THEN [code |-> StatusFor(Nil), d |-> NoInput]
        ELSE [code |-> 0, d |-> in.val]

\* MapperAdmit without the method check of lines 214-217
MapperAdmit_NoMethodCheck(req) ==
    LET push == DecodePushRequest(req.body)
        in == Unmarshal(PayloadBytes(push.data))
    IN  IF ~push.ok
        THEN [code |-> StatusBadRequest, d |-> NoInput]
        ELSE IF ~in.ok
        THEN [code |-> StatusFor(Nil), d |-> NoInput]
        ELSE IF in.val.domain = ""
        THEN [code |-> StatusFor(Nil), d |-> in.val]
        ELSE [code |-> 0, d |-> in.val]

\* httpHandler lines 213-240 and ProcessPubSubPush lines 85-96: the status
\* answered without any further processing (code), or the InputMessage the
\* invocation goes on with (code 0)
MapperAdmit(req) ==
    LET push == DecodePushRequest(req.body)
        in == Unmarshal(PayloadBytes(push.data))
    IN  IF req.method # "POST"
        THEN [code |-> StatusMethodNotAllowed, d |-> NoInput]
        ELSE IF ~push.ok
        THEN [code |-> StatusBadRequest, d |-> NoInput]
        ELSE IF ~in.ok
        THEN [code |-> StatusFor(Nil), d |-> NoInput]
        ELSE IF in.val.domain = ""
        THEN [code |-> StatusFor(Nil), d |-> in.val]
        ELSE [code |-> 0, d |-> in.val]

\* withUID with the test of line 99 inverted
withUID_Inverted(d, now, rnd) ==
    IF d.uid # "" THEN [d EXCEPT !.uid = generateUID(now, rnd)] ELSE d

\* withUID that generates a UID whether or not one was provided
withUID_Always(d, now, rnd) == [d EXCEPT !.uid = generateUID(now, rnd)]

\* ProcessPubSubPush lines 98-102: generate a UID if none was provided
withUID(d, now, rnd) ==
    IF d.uid = "" THEN [d EXCEPT !.uid = generateUID(now, rnd)] ELSE d

\* httpHandler up to ProcessPubSubPush's call of callFirecrawlAPI
MapperReceive ==
    /\ mPc = "start"
    /\ LET a == MapperAdmit(mReq)
       IN  IF a.code # 0
           THEN MapperRespond(a.code, Nil) /\ mD' = a.d /\ UNCHANGED mGen
           ELSE /\ mPc' = "discover"
                /\ \E now \in 1..MaxTime, rnd \in 0..MaxRand :
                     mD' = withUID(a.d, now, rnd)
                /\ mGen' = IF a.d.uid = "" THEN mGen + 1 ELSE mGen
                /\ UNCHANGED <<mErr, mResp>>
    /\ UNCHANGED <<mReq, mApi, mLinks, mClient, mGo, mWg, mMu, mErrs,
                   mAttempts, mPublished>>
    /\ UNCHANGED <<mSent, mres, menv, pvars, ovars>>

\* MapperDiscover that calls the discovery API a second time after a failure
MapperDiscover_Retry ==
    /\ mPc = "discover"
    /\ \E r \in mAnswers :
         LET res == callFirecrawlAPI(r)
         IN  /\ mApi' = Append(mApi, r)
             /\ mBody' = IF r.transport THEN mBody ELSE "closed"
             /\ IF res.err # Nil
                THEN IF Len(mApi) = 0
                     THEN UNCHANGED <<mPc, mErr, mResp, mLinks>>
                     ELSE MapperRespond(StatusFor(res.err), res.err) /\ UNCHANGED mLinks
                ELSE /\ mPc' = "newclient"
                     /\ mLinks' = res.links
                     /\ UNCHANGED <<mErr, mResp>>
    /\ UNCHANGED <<mReq, mD, mGen, mClient, mGo, mWg, mMu, mErrs,
                   mAttempts, mPublished>>
    /\ UNCHANGED <<mSent, mTopic, menv, pvars, ovars>>

\* ProcessPubSubPush lines 106-111
MapperDiscover ==
    /\ mPc = "discover"
    /\ \E r \in mAnswers :
         LET res == callFirecrawlAPI(r)
         IN  /\ mApi' = Append(mApi, r)
             /\ mBody' = IF r.transport THEN mBody ELSE "closed"
             /\ IF res.err # Nil
                THEN MapperRespond(StatusFor(res.err), res.err) /\ UNCHANGED mLinks
                ELSE /\ mPc' = "newclient"
                     /\ mLinks' = res.links
                     /\ UNCHANGED <<mErr, mResp>>
    /\ UNCHANGED <<mReq, mD, mGen, mClient, mGo, mWg, mMu, mErrs,
                   mAttempts, mPublished>>
    /\ UNCHANGED <<mSent, mTopic, menv, pvars, ovars>>

\* publishLinks lines 124-131
MapperNewClient ==
    /\ mPc = "newclient"
    /\ \E ok \in BOOLEAN :
         IF ok
         THEN /\ mClient' = "open"
              /\ mTopic' = "open"
              /\ mPc' = "spawn"
              /\ UNCHANGED <<mErr, mResp>>
         ELSE /\ MapperRespond(StatusFor("failed to create pubsub client: dial error"),
                               "failed to create pubsub client: dial error")
              /\ UNCHANGED <<mClient, mTopic>>
    /\ UNCHANGED <<mReq, mD, mGen, mApi, mLinks, mGo, mWg, mMu, mErrs,
                   mAttempts, mPublished>>
    /\ UNCHANGED <<mSent, mBody, menv, pvars, ovars>>

\* loopLink when the goroutine reads the shared loop variable after the loop
loopLink_Last(links, i) == links[Len(links)]

\* publishLinks lines 137-160: the link handed to the i-th goroutine
loopLink(links, i) == links[i]

\* MapperSpawn with a ledger: a link the first delivery published is skipped
MapperSpawn_Ledger ==
    /\ mPc = "spawn"
    /\ IF Len(mGo) < Len(mLinks)
       THEN IF \E k \in 1..Len(mPrev.published) :
                   mPrev.published[k].url = mLinks[Len(mGo) + 1]
            THEN /\ mGo' = Append(mGo, [l |-> mLinks[Len(mGo) + 1], pc |-> "done",
                                        err |-> Nil, seen |-> <<>>])
                 /\ UNCHANGED <<mPc, mWg>>
            ELSE /\ mWg' = mWg + 1
                 /\ mGo' = Append(mGo, [l |-> mLinks[Len(mGo) + 1], pc |-> "marshal",
                                        err |-> Nil, seen |-> <<>>])
                 /\ UNCHANGED mPc
       ELSE /\ mPc' = "wait"
            /\ UNCHANGED <<mWg, mGo>>
    /\ UNCHANGED <<mReq, mD, mGen, mApi, mLinks, mClient, mMu, mErrs,
                   mAttempts, mPublished, mErr, mResp>>
    /\ UNCHANGED <<mSent, mres, menv, pvars, ovars>>

\* publishLinks lines 137-161: one iteration of the range loop
MapperSpawn ==
    /\ mPc = "spawn"
    /\ IF Len(mGo) < Len(mLinks)
       THEN /\ mWg' = mWg + 1
            /\ mGo' = Append(mGo, [l |-> loopLink(mLinks, Len(mGo) + 1), pc |-> "marshal",
                                   err |-> Nil, seen |-> <<>>])
            /\ UNCHANGED mPc
       ELSE /\ mPc' = "wait"
            /\ UNCHANGED <<mWg, mGo>>
    /\ UNCHANGED <<mReq, mD, mGen, mApi, mLinks, mClient, mMu, mErrs,
                   mAttempts, mPublished, mErr, mResp>>
    /\ UNCHANGED <<mSent, mres, menv, pvars, ovars>>

\* goroutine lines 141-153: marshal the URLMessage and hand it to the topic
GoMarshal(i) ==
    /\ mGo[i].pc = "marshal"
    /\ \E ok \in BOOLEAN :
         IF ok
         THEN /\ mGo' = [mGo EXCEPT ![i].pc = "get"]
              /\ mAttempts' = mAttempts + 1
              /\ mSent' = mSent \cup {URLMessage(mGo[i].l, mD.uid, mD.domain)}
         ELSE /\ mGo' = [mGo EXCEPT ![i].pc = "lock",
                             ![i].err = "failed to marshal message for " \o mGo[i].l]
              /\ UNCHANGED <<mAttempts, mSent>>
    /\ UNCHANGED <<mReq, mPc, mD, mGen, mApi, mLinks, mClient, mWg, mMu,
                   mErrs, mPublished, mErr, mResp>>
    /\ UNCHANGED <<mres, menv, pvars, ovars>>

\* goroutine line 154: res.Get(ctx)
GoGet(i) ==
    /\ mGo[i].pc = "get"
    /\ \E ok \in BOOLEAN :
         IF ok
         THEN /\ mPublished' = Append(mPublished, URLMessage(mGo[i].l, mD.uid, mD.domain))
              /\ mGo' = [mGo EXCEPT ![i].pc = "done"]
              /\ mWg' = mWg - 1
         ELSE /\ mGo' = [mGo EXCEPT ![i].pc = "lock",
                             ![i].err = "failed to publish message for " \o mGo[i].l]
              /\ UNCHANGED <<mPublished, mWg>>
    /\ UNCHANGED <<mReq, mPc, mD, mGen, mApi, mLinks, mClient, mMu, mErrs,
                   mAttempts, mErr, mResp>>
    /\ UNCHANGED <<mSent, mres, menv, pvars, ovars>>

\* GoLock that does not wait for the mutex
GoLock_NoMutex(i) ==
    /\ mGo[i].pc = "lock"
    /\ mMu' = i
    /\ mGo' = [mGo EXCEPT ![i].pc = "read"]
    /\ UNCHANGED <<mReq, mPc, mD, mGen, mApi, mLinks, mClient, mWg, mErrs,
                   mAttempts, mPublished, mErr, mResp>>
    /\ UNCHANGED <<mSent, mres, menv, pvars, ovars>>

\* mu.Lock()
GoLock(i) ==
    /\ mGo[i].pc = "lock"
    /\ mMu = 0
    /\ mMu' = i
    /\ mGo' = [mGo EXCEPT ![i].pc = "read"]
    /\ UNCHANGED <<mReq, mPc, mD, mGen, mApi, mLinks, mClient, mWg, mErrs,
                   mAttempts, mPublished, mErr, mResp>>
    /\ UNCHANGED <<mSent, mres, menv, pvars, ovars>>

\* append(errs, ...): the read of errs
GoRead(i) ==
    /\ mGo[i].pc = "read"
    /\ mGo' = [mGo EXCEPT ![i].pc = "write", ![i].seen = mErrs]
    /\ UNCHANGED <<mReq, mPc, mD, mGen, mApi, mLinks, mClient, mWg, mMu, mErrs,
                   mAttempts, mPublished, mErr, mResp>>
    /\ UNCHANGED <<mSent, mres, menv, pvars, ovars>>

\* GoWrite that returns without mu.Unlock()
GoWrite_NoUnlock(i) ==
    /\ mGo[i].pc = "write"
    /\ mErrs' = Append(mGo[i].seen, mGo[i].err)
    /\ mGo' = [mGo EXCEPT ![i].pc = "done"]
    /\ mWg' = mWg - 1
    /\ UNCHANGED <<mReq, mPc, mD, mGen, mApi, mLinks, mClient, mMu,
                   mAttempts, mPublished, mErr, mResp>>
    /\ UNCHANGED <<mSent, mres, menv, pvars, ovars>>

\* errs = append(...); mu.Unlock(); deferred wg.Done()
GoWrite(i) ==
    /\ mGo[i].pc = "write"
    /\ mErrs' = Append(mGo[i].seen, mGo[i].err)
    /\ mMu' = IF mMu = i THEN 0 ELSE mMu
    /\ mGo' = [mGo EXCEPT ![i].pc = "done"]
    /\ mWg' = mWg - 1
    /\ UNCHANGED <<mReq, mPc, mD, mGen, mApi, mLinks, mClient,
                   mAttempts, mPublished, mErr, mResp>>
    /\ UNCHANGED <<mSent, mres, menv, pvars, ovars>>

\* publishLinksResult that tolerates one error
publishLinksResult_OffByOne(errs) ==
    IF Len(errs) > 1
    THEN "encountered " \o ToString(Len(errs)) \o
         " errors while publishing. First error: " \o errs[1]
    ELSE Nil

\* publishLinks lines 165-169: the error returned after the barrier
publishLinksResult(errs) ==
    IF Len(errs) > 0
    THEN "encountered " \o ToString(Len(errs)) \o
         " errors while publishing. First error: " \o errs[1]
    ELSE Nil

\* MapperJoin without the barrier of line 163
MapperJoin_NoWait ==
    /\ mPc = "wait"
    /\ MapperRespond(StatusFor(publishLinksResult(mErrs)), publishLinksResult(mErrs))
    /\ mClient' = "closed"
    /\ mTopic' = "stopped"
    /\ UNCHANGED <<mReq, mD, mGen, mApi, mLinks, mGo, mWg, mMu, mErrs,
                   mAttempts, mPublished>>
    /\ UNCHANGED <<mSent, mBody, menv, pvars, ovars>>

\* publishLinks lines 163-169 with its deferred Stop/Close, then
\* ProcessPubSubPush lines 113-119 and httpHandler lines 242-249
MapperJoin ==
    /\ mPc = "wait"
    /\ mWg = 0
    /\ MapperRespond(StatusFor(publishLinksResult(mErrs)), publishLinksResult(mErrs))
    /\ mClient' = "closed"
    /\ mTopic' = "stopped"
    /\ UNCHANGED <<mReq, mD, mGen, mApi, mLinks, mGo, mWg, mMu, mErrs,
                   mAttempts, mPublished>>
    /\ UNCHANGED <<mSent, mBody, menv, pvars, ovars>>

\* The queue delivers the request again (at-least-once delivery): a new
\* invocation starts from scratch; what the first one published stays on
\* the topic.
MapperRedeliver ==
    /\ mPc = "done"
    /\ mDelivery = 1
    /\ mDelivery' = 2
    /\ mPrev' = [links |-> mLinks, tasks |-> mSent, published |-> mPublished,
                 resp |-> mResp]
    /\ mPc' = "start"
    /\ mD' = NoInput
    /\ mGen' = 0
    /\ mApi' = <<>>
    /\ mLinks' = <<>>
    /\ mClient' = "none"
    /\ mGo' = <<>>
    /\ mWg' = 0
    /\ mMu' = 0
    /\ mErrs' = <<>>
    /\ mAttempts' = 0
    /\ mPublished' = <<>>
    /\ mErr' = Nil
    /\ mResp' = 0
    /\ mSent' = {}
    /\ mTopic' = "none"
    /\ mBody' = "none"
    /\ UNCHANGED <<mReq, mAnswers, mCtx, mPeer, pvars, ovars>>

MapperNext ==
    \/ MapperReceive
    \/ MapperDiscover
    \/ MapperNewClient
    \/ MapperSpawn
    \/ \E i \in 1..Len(mGo) : GoMarshal(i)
    \/ \E i \in 1..Len(mGo) : GoGet(i)
    \/ \E i \in 1..Len(mGo) : GoLock(i)
    \/ \E i \in 1..Len(mGo) : GoRead(i)
    \/ \E i \in 1..Len(mGo) : GoWrite(i)
    \/ MapperJoin

\* --------------------------------------------------------------- Processor
TaskUrls == {"", "https://example.com/a", "://no-scheme"}

\* InputMessage of the processor; an absent key unmarshals to ""
ProcessorInputMessage == [url : TaskUrls, uid : UIDs, domain : Domains]

ProcessorTexts ==
    {[kind |-> "garbage"]} \cup
    {[kind |-> "object", val |-> d] : d \in ProcessorInputMessage}

ProcessorBodies ==
    {[envelope |-> FALSE, hasData |-> FALSE, data |-> EmptyBytes],
     [envelope |-> TRUE, hasData |-> FALSE, data |-> EmptyBytes]} \cup
    {[envelope |-> TRUE, hasData |-> TRUE, data |-> [layers |-> n, text |-> t]] :
        n \in 0..MaxLayers, t \in ProcessorTexts}

\* values of the optional environment variables CRAWLER_ID, DOMAIN_TO_CRAWL
EnvValues == {"", "configured"}

\* DefaultUnknown without the defaults
DefaultUnknown_NoDefault(v) == v

\* init() lines 36-42: defaults of the optional settings
DefaultUnknown(v) == IF v = "" THEN "unknown" ELSE v

\* http.NewRequest: fails when the URL does not parse
NewRequest(url) ==
    IF url = "://no-scheme"
    THEN "failed to create request: parse \"" \o url \o "\": missing protocol scheme"
    ELSE Nil

\* A page body is a sequence of markup tokens: tags and text runs.
Tokens == {"<br>", "hi"}
IsTag(t) == t = "<br>"

RECURSIVE Join(_)
Join(ts) == IF ts = <<>> THEN "" ELSE Head(ts) \o Join(Tail(ts))

\* ConvertString that passes the markup through
ConvertString_Raw(body) == Join(body)

\* md.ConvertString: the text of the page without its markup
ConvertString(body) == Join(SelectSeq(body, LAMBDA t : ~IsTag(t)))

\* What the fetched target does: a transport error, or a status code with a
\* body; reading the body or converting it may fail.
Targets ==
    {[transport |-> TRUE, code |-> 0, body |-> <<>>, fail |-> "none"],
     [transport |-> FALSE, code |-> 404, body |-> <<>>, fail |-> "none"]} \cup
    {[transport |-> FALSE, code |-> StatusOK, body |-> b, fail |-> f] :
        b \in SeqsUpTo(Tokens, MaxBody), f \in {"none", "read", "convert"}}

\* convertURLToMarkdown without the status check of lines 165-167
convertURLToMarkdown_NoStatusCheck(t) ==
    IF t.transport
    THEN [markdown |-> "", err |-> "failed to download URL: connection refused"]
    ELSE IF t.fail = "read"
    THEN [markdown |-> "", err |-> "failed to read response body: unexpected EOF"]
    ELSE IF t.fail = "convert"
    THEN [markdown |-> "", err |-> "failed to convert HTML to Markdown: render error"]
    ELSE [markdown |-> ConvertString(t.body), err |-> Nil]

\* convertURLToMarkdown lines 159-179, given the target's answer
convertURLToMarkdown(t) ==
    IF t.transport
    THEN [markdown |-> "", err |-> "failed to download URL: connection refused"]
    ELSE IF t.code # StatusOK
    THEN [markdown |-> "",
          err |-> "failed to download URL: status code " \o ToString(t.code)]
    ELSE IF t.fail = "read"
    THEN [markdown |-> "", err |-> "failed to read response body: unexpected EOF"]
    ELSE IF t.fail = "convert"
    THEN [markdown |-> "", err |-> "failed to convert HTML to Markdown: render error"]
    ELSE [markdown |-> ConvertString(t.body), err |-> Nil]

\* OutputMessage without the assignment markdown = err.Error() of line 103
OutputMessage_NoErrText(d, res, now, crawler, defaultDomain) ==
    [url |-> d.url,
     markdown |-> res.markdown,
     timestamp |-> now,
     crawler_id |-> crawler,
     domain |-> IF d.domain = "" THEN defaultDomain ELSE d.domain,
     uid |-> IF d.uid = "" THEN "unknown" ELSE d.uid,
     status |-> IF res.err # Nil THEN "error" ELSE "success"]

\* OutputMessage without the "unknown" default of lines 93-96
OutputMessage_NoUidDefault(d, res, now, crawler, defaultDomain) ==
    [url |-> d.url,
     markdown |-> IF res.err # Nil THEN res.err ELSE res.markdown,
     timestamp |-> now,
     crawler_id |-> crawler,
     domain |-> IF d.domain = "" THEN defaultDomain ELSE d.domain,
     uid |-> d.uid,
     status |-> IF res.err # Nil THEN "error" ELSE "success"]

\* OutputMessage that generates a UID from the clock when the task has none
OutputMessage_TimedUid(d, res, now, crawler, defaultDomain) ==
    [url |-> d.url,
     markdown |-> IF res.err # Nil THEN res.err ELSE res.markdown,
     timestamp |-> now,
     crawler_id |-> crawler,
     domain |-> IF d.domain = "" THEN defaultDomain ELSE d.domain,
     uid |-> IF d.uid = "" THEN "auto-" \o ToString(now) ELSE d.uid,
     status |-> IF res.err # Nil THEN "error" ELSE "success"]

\* ProcessPubSubPush lines 86-114: the OutputMessage built from the task,
\* the result of convertURLToMarkdown and the configuration
OutputMessage(d, res, now, crawler, defaultDomain) ==
    [url |-> d.url,
     markdown |-> IF res.err # Nil THEN res.err ELSE res.markdown,
     timestamp |-> now,
     crawler_id |-> crawler,
     domain |-> IF d.domain = "" THEN defaultDomain ELSE d.domain,
     uid |-> IF d.uid = "" THEN "unknown" ELSE d.uid,
     status |-> IF res.err # Nil THEN "error" ELSE "success"]

NoTask == [url |-> "", uid |-> "", domain |-> ""]
NoTarget == [transport |-> FALSE, code |-> 0, body |-> <<>>, fail |-> "none"]
NoOutput == [url |-> "", markdown |-> "", timestamp |-> 0, crawler_id |-> "",
             domain |-> "", uid |-> "", status |-> ""]

\* init() lines 26-43: the package variables after startup
ProcessorConfig ==
    /\ pEnv \in [CRAWLER_ID : EnvValues, DOMAIN_TO_CRAWL : EnvValues]
    /\ crawlerID = DefaultUnknown(pEnv.CRAWLER_ID)
    /\ domainToCrawl = DefaultUnknown(pEnv.DOMAIN_TO_CRAWL)

\* state of an invocation before it has done anything
ProcessorFresh ==
    /\ pD = NoTask
    /\ pFetches = 0
    /\ pTarget = NoTarget
    /\ pRes = [markdown |-> "", err |-> Nil]
    /\ pOutput = NoOutput
    /\ pClient = "none"
    /\ pAttempts = 0
    /\ pPublished = <<>>
    /\ pErr = Nil
    /\ pResp = 0
    /\ pTopic = "none"
    /\ pBody = "none"

\* nothing is left behind by an earlier delivery
NoProcessorPrev == [published |-> <<>>, resp |-> 0]

\* the request is not cancelled and the processor's peers answer its calls
ProcessorLive == pCtx = "live" /\ pPeer = "answers"

\* no request is delivered to the processor
ProcessorIdle ==
    /\ pEnv = [CRAWLER_ID |-> "", DOMAIN_TO_CRAWL |-> ""]
    /\ crawlerID = DefaultUnknown(pEnv.CRAWLER_ID)
    /\ domainToCrawl = DefaultUnknown(pEnv.DOMAIN_TO_CRAWL)
    /\ pReq = [method |-> "GET", body |-> [envelope |-> FALSE, hasData |-> FALSE, data |-> EmptyBytes]]
    /\ pPc = "idle"
    /\ ProcessorFresh
    /\ pAnswers = {}
    /\ pDelivery = 1
    /\ pPrev = NoProcessorPrev
    /\ ProcessorLive

ProcessorRespond(code, err) ==
    /\ pPc' = "done"
    /\ pErr' = err
    /\ pResp' = code

\* ProcessPubSubPush lines 98-120 once convertURLToMarkdown has returned res:
\* build the OutputMessage and marshal it
ProcessorBuild(d, res) ==
    /\ pRes' = res
    /\ \E now \in 1..MaxTime, marshals \in BOOLEAN :
         /\ pOutput' = OutputMessage(d, res, now, crawlerID, domainToCrawl)
         /\ IF marshals
            THEN pPc' = "newclient" /\ UNCHANGED <<pErr, pResp>>
            ELSE ProcessorRespond(StatusFor("json: error calling MarshalJSON"),
                                  "json: error calling MarshalJSON")

\* ProcessorAdmit without the empty-url check of lines 81-84
ProcessorAdmit_NoUrlCheck(req) ==
    LET push == DecodePushRequest(req.body)
        in == Unmarshal(PayloadBytes(push.data))
    IN  IF req.method # "POST"
        THEN [code |-> StatusMethodNotAllowed, d |-> NoTask]
        ELSE IF ~push.ok
        THEN [code |-> StatusBadRequest, d |-> NoTask]
        ELSE IF ~in.ok
        THEN [code |-> StatusFor(Nil), d |-> NoTask]
        ELSE [code |-> 0, d |-> in.val]

\* httpHandler lines 183-210 and ProcessPubSubPush lines 74-84: the status
\* answered without any further processing (code), or the InputMessage the
\* invocation goes on with (code 0)
ProcessorAdmit(req) ==
    LET push == DecodePushRequest(req.body)
        in == Unmarshal(PayloadBytes(push.data))
    IN  IF req.method # "POST"
        THEN [code |-> StatusMethodNotAllowed, d |-> NoTask]
        ELSE IF ~push.ok
        THEN [code |-> StatusBadRequest, d |-> NoTask]
        ELSE IF ~in.ok
        THEN [code |-> StatusFor(Nil), d |-> NoTask]
        ELSE IF in.val.url = ""
        THEN [code |-> StatusFor(Nil), d |-> in.val]
        ELSE [code |-> 0, d |-> in.val]

\* httpHandler up to convertURLToMarkdown's httpClient.Do; when the request
\* cannot be created (lines 145-148) no fetch is made and the result is built
ProcessorReceive ==
    /\ pPc = "start"
    /\ LET a == ProcessorAdmit(pReq)
       IN  /\ pD' = a.d
           /\ IF a.code # 0
              THEN /\ ProcessorRespond(a.code, Nil)
                   /\ UNCHANGED <<pRes, pOutput>>
              ELSE IF NewRequest(a.d.url) # Nil
              THEN ProcessorBuild(a.d, [markdown |-> "", err |-> NewRequest(a.d.url)])
              ELSE /\ pPc' = "fetch"
                   /\ UNCHANGED <<pRes, pOutput, pErr, pResp>>
    /\ UNCHANGED <<pEnv, crawlerID, domainToCrawl, pReq, pFetches, pTarget,
                   pClient, pAttempts, pPublished>>
    /\ UNCHANGED <<pres, penv, mvars, ovars>>

\* convertURLToMarkdown lines 159-179 and ProcessPubSubPush lines 98-120
ProcessorFetch ==
    /\ pPc = "fetch"
    /\ pFetches' = pFetches + 1
    /\ \E t \in pAnswers :
         /\ pTarget' = t
         /\ pBody' = IF t.transport THEN pBody ELSE "closed"
         /\ ProcessorBuild(pD, convertURLToMarkdown(t))
    /\ UNCHANGED <<pEnv, crawlerID, domainToCrawl, pReq, pD, pClient,
                   pAttempts, pPublished>>
    /\ UNCHANGED <<pTopic, penv, mvars, ovars>>

\* ProcessPubSubPush lines 122-132: create the client and hand the message
\* to the topic
ProcessorNewClient ==
    /\ pPc = "newclient"
    /\ \E ok \in BOOLEAN :
         IF ok
         THEN /\ pClient' = "open"
              /\ pTopic' = "open"
              /\ pAttempts' = pAttempts + 1
              /\ pPc' = "get"
              /\ UNCHANGED <<pErr, pResp>>
         ELSE /\ ProcessorRespond(StatusFor("pubsub: dial error"), "pubsub: dial error")
              /\ UNCHANGED <<pClient, pTopic, pAttempts>>
    /\ UNCHANGED <<pEnv, crawlerID, domainToCrawl, pReq, pD, pFetches, pTarget,
                   pRes, pOutput, pPublished>>
    /\ UNCHANGED <<pBody, penv, mvars, ovars>>

\* ProcessorGet that ignores the error of res.Get
ProcessorGet_IgnoresError ==
    /\ pPc = "get"
    /\ \E ok \in BOOLEAN :
         IF ok
         THEN /\ pPublished' = Append(pPublished, pOutput)
              /\ ProcessorRespond(StatusFor(Nil), Nil)
         ELSE /\ ProcessorRespond(StatusFor(Nil), Nil)
              /\ UNCHANGED pPublished
    /\ pClient' = "closed"
    /\ UNCHANGED <<pEnv, crawlerID, domainToCrawl, pReq, pD, pFetches, pTarget,
                   pRes, pOutput, pAttempts>>
    /\ UNCHANGED <<pres, penv, mvars, ovars>>

\* ProcessPubSubPush lines 134-140 with the deferred client.Close, then
\* httpHandler lines 212-219
ProcessorGet ==
    /\ pPc = "get"
    /\ \E ok \in BOOLEAN :
         IF ok
         THEN /\ pPublished' = Append(pPublished, pOutput)
              /\ ProcessorRespond(StatusFor(Nil), Nil)
         ELSE /\ ProcessorRespond(StatusFor("pubsub: publish failed"), "pubsub: publish failed")
              /\ UNCHANGED pPublished
    /\ pClient' = "closed"
    /\ UNCHANGED <<pEnv, crawlerID, domainToCrawl, pReq, pD, pFetches, pTarget,
                   pRes, pOutput, pAttempts>>
    /\ UNCHANGED <<pres, penv, mvars, ovars>>

\* The queue delivers the request again (at-least-once delivery): a new
\* invocation starts from scratch; what the first one published stays on
\* the topic.
ProcessorRedeliver ==
    /\ pPc = "done"
    /\ pDelivery = 1
    /\ pDelivery' = 2
    /\ pPrev' = [published |-> pPublished, resp |-> pResp]
    /\ pPc' = "start"
    /\ pD' = NoTask
    /\ pFetches' = 0
    /\ pTarget' = NoTarget
    /\ pRes' = [markdown |-> "", err |-> Nil]
    /\ pOutput' = NoOutput
    /\ pClient' = "none"
    /\ pAttempts' = 0
    /\ pPublished' = <<>>
    /\ pErr' = Nil
    /\ pResp' = 0
    /\ pTopic' = "none"
    /\ pBody' = "none"
    /\ UNCHANGED <<pEnv, crawlerID, domainToCrawl, pReq, pAnswers, pCtx, pPeer, mvars, ovars>>

ProcessorNext ==
    \/ ProcessorReceive
    \/ ProcessorFetch
    \/ ProcessorNewClient
    \/ ProcessorGet

\* ---------------------------------------------------------- specifications
MapperInit ==
    /\ mReq \in [method : Methods, body : MapperBodies]
    /\ mPc = "start"
    /\ MapperFresh
    /\ mAnswers = ApiResponses
    /\ mDelivery = 1
    /\ mPrev = NoMapperPrev
    /\ MapperLive
    /\ ProcessorIdle
    /\ OthersIdle

\* one mapper invocation, from the delivery of its request to its response
MapperSpec == MapperInit /\ [][MapperNext]_vars

ProcessorInit ==
    /\ ProcessorConfig
    /\ pReq \in [method : Methods, body : ProcessorBodies]
    /\ pPc = "start"
    /\ ProcessorFresh
    /\ pAnswers = Targets
    /\ pDelivery = 1
    /\ pPrev = NoProcessorPrev
    /\ ProcessorLive
    /\ MapperIdle
    /\ OthersIdle

\* one processor invocation, from the delivery of its request to its response
ProcessorSpec == ProcessorInit /\ [][ProcessorNext]_vars

Init == MapperInit \/ ProcessorInit

Next == MapperNext \/ ProcessorNext

\* one invocation of either handler
Spec == Init /\ [][Next]_vars

\* the request the queue makes of a message: a POST whose envelope holds the
\* message data base64-encoded once
QueueBody(t) == [envelope |-> TRUE, hasData |-> TRUE, data |-> [layers |-> 1, text |-> t]]

\* a discovery result lists every link once
NoDuplicates(links) ==
    \A i, j \in 1..Len(links) : links[i] = links[j] => i = j

MapperRedeliveryInit ==
    /\ mReq \in [method : {"POST"}, body : {QueueBody(t) : t \in MapperTexts}]
    /\ mPc = "start"
    /\ MapperFresh
    /\ mAnswers \in {{r} : r \in {a \in ApiResponses : NoDuplicates(a.links)}}
    /\ mDelivery = 1
    /\ mPrev = NoMapperPrev
    /\ MapperLive
    /\ ProcessorIdle
    /\ OthersIdle

MapperRedeliveryNext == MapperNext \/ MapperRedeliver

\* a CrawlRequest delivered twice to the mapper, the discovery API giving
\* the same answer both times
MapperRedeliverySpec == MapperRedeliveryInit /\ [][MapperRedeliveryNext]_vars

ProcessorRedeliveryInit ==
    /\ ProcessorConfig
    /\ pReq \in [method : {"POST"}, body : {QueueBody(t) : t \in ProcessorTexts}]
    /\ pPc = "start"
    /\ ProcessorFresh
    /\ pAnswers \in {{t} : t \in Targets}
    /\ pDelivery = 1
    /\ pPrev = NoProcessorPrev
    /\ ProcessorLive
    /\ MapperIdle
    /\ OthersIdle

ProcessorRedeliveryNext == ProcessorNext \/ ProcessorRedeliver

\* a URLTask delivered twice to the processor, the target answering the
\* same way both times
ProcessorRedeliverySpec == ProcessorRedeliveryInit /\ [][ProcessorRedeliveryNext]_vars

\* ------------------------------------------------------------ cancellation
\* The platform cancels the request (client disconnect, handler deadline):
\* r.Context() is done from then on.
MapperCancel ==
    /\ mPc \in {"start", "discover", "newclient", "spawn", "wait"}
    /\ mCtx = "live"
    /\ mCtx' = "cancelled"
    /\ UNCHANGED <<mReq, mPc, mD, mGen, mApi, mLinks, mClient, mGo, mWg, mMu,
                   mErrs, mAttempts, mPublished, mErr, mResp, mSent, mres>>
    /\ UNCHANGED <<mAnswers, mDelivery, mPrev, mPeer, pvars, ovars>>

\* callFirecrawlAPI lines 185 and 193-196: the request was made with
\* NewRequestWithContext(ctx, ...), so client.Do returns the context's error
MapperDiscoverAbort ==
    /\ mPc = "discover"
    /\ mCtx = "cancelled"
    /\ MapperRespond(StatusFor("failed to call Firecrawl API: context canceled"),
                     "failed to call Firecrawl API: context canceled")
    /\ UNCHANGED <<mReq, mD, mGen, mApi, mLinks, mClient, mGo, mWg, mMu, mErrs,
                   mAttempts, mPublished>>
    /\ UNCHANGED <<mSent, mres, menv, pvars, ovars>>

\* goroutine lines 154-158: res.Get(ctx) returns the context's error
GoGetAbort(i) ==
    /\ mGo[i].pc = "get"
    /\ mCtx = "cancelled"
    /\ mGo' = [mGo EXCEPT ![i].pc = "lock",
                    ![i].err = "failed to publish message for " \o mGo[i].l]
    /\ UNCHANGED <<mReq, mPc, mD, mGen, mApi, mLinks, mClient, mWg, mMu, mErrs,
                   mAttempts, mPublished, mErr, mResp>>
    /\ UNCHANGED <<mSent, mres, menv, pvars, ovars>>

\* the steps of goroutine i that do not wait for a peer
GoLocal(i) == GoMarshal(i) \/ GoLock(i) \/ GoRead(i) \/ GoWrite(i)

\* the steps of goroutine i when the request may be cancelled
GoCancelStep(i) ==
    \/ GoLocal(i)
    \/ mPeer = "answers" /\ GoGet(i)
    \/ GoGetAbort(i)

MapperCancelNext ==
    \/ MapperCancel
    \/ MapperReceive
    \/ mPeer = "answers" /\ MapperDiscover
    \/ MapperDiscoverAbort
    \/ MapperNewClient
    \/ MapperSpawn
    \/ \E i \in 1..Len(mGo) : GoCancelStep(i)
    \/ MapperJoin

ProcessorCancel ==
    /\ pPc \in {"start", "fetch", "newclient", "get"}
    /\ pCtx = "live"
    /\ pCtx' = "cancelled"
    /\ UNCHANGED <<pEnv, crawlerID, domainToCrawl, pReq, pPc, pD, pFetches, pTarget,
                   pRes, pOutput, pClient, pAttempts, pPublished, pErr, pResp, pres>>
    /\ UNCHANGED <<pAnswers, pDelivery, pPrev, pPeer, mvars, ovars>>

\* ProcessPubSubPush lines 134-137: res.Get(ctx) returns the context's error
ProcessorGetAbort ==
    /\ pPc = "get"
    /\ pCtx = "cancelled"
    /\ ProcessorRespond(StatusFor("context canceled"), "context canceled")
    /\ pClient' = "closed"
    /\ UNCHANGED <<pEnv, crawlerID, domainToCrawl, pReq, pD, pFetches, pTarget,
                   pRes, pOutput, pAttempts, pPublished>>
    /\ UNCHANGED <<pres, penv, mvars, ovars>>

\* convertURLToMarkdown lines 144-145 and 159: the request is made with
\* http.NewRequest and an http.Client without Timeout, so it does not see
\* the context: the fetch ends only when the target answers
ProcessorCancelNext ==
    \/ ProcessorCancel
    \/ ProcessorReceive
    \/ pPeer = "answers" /\ ProcessorFetch
    \/ ProcessorNewClient
    \/ pPeer = "answers" /\ ProcessorGet
    \/ ProcessorGetAbort

CancelInit ==
    \/ /\ mReq \in [method : {"POST"}, body : {QueueBody(t) : t \in MapperTexts}]
       /\ mPc = "start"
       /\ MapperFresh
       /\ mAnswers = ApiResponses
       /\ mDelivery = 1
       /\ mPrev = NoMapperPrev
       /\ mCtx = "live"
       /\ mPeer \in {"answers", "silent"}
       /\ ProcessorIdle
       /\ OthersIdle
    \/ /\ ProcessorConfig
       /\ pReq \in [method : {"POST"}, body : {QueueBody(t) : t \in ProcessorTexts}]
       /\ pPc = "start"
       /\ ProcessorFresh
       /\ pAnswers = Targets
       /\ pDelivery = 1
       /\ pPrev = NoProcessorPrev
       /\ pCtx = "live"
       /\ pPeer \in {"answers", "silent"}
       /\ MapperIdle
       /\ OthersIdle

CancelNext == MapperCancelNext \/ ProcessorCancelNext

\* one invocation of either handler whose request the platform may cancel
\* and whose peers may never answer
CancelSpec == CancelInit /\ [][CancelNext]_vars

\* -------------------------------------------------------- deployment script
\* deploy_service line 305 and wait_for_service line 348
MAX_RETRIES == 3
MAX_WAIT == 300

ServiceNames == <<"url-mapper", "page-processor">>

\* deploy_service lines 313-316: [[ "$SERVICE_NAME" == *"processor"* ]]
MemoryFor(name) == IF name = "page-processor" THEN "1Gi" ELSE "512Mi"

\* what the three prerequisite checks may count; a topic filter may match
\* more than the three topics
Prerequisites == [topics : 0..4, accounts : 0..2, tables : 0..2]

\* a call of deploy_service: its locals of lines 301-306
DeployCall(name) ==
    /\ SERVICE_NAME' = name
    /\ RETRY_COUNT' = 0
    /\ dOutcomes' = <<>>
    /\ dSleeps' = 0
    /\ dRet' = -1
    /\ dPc' = "loop"

\* the script exits (exit, or a failing command under set -e)
DeployExit(status) ==
    /\ dPc' = "exit"
    /\ dExit' = status

\* lines 241-296: the prerequisite checks, then the first deploy_service call
DeployVerify ==
    /\ dPc = "verify"
    /\ IF dPre.topics = 3 /\ dPre.accounts = 2 /\ dPre.tables = 2
       THEN DeployCall(ServiceNames[1]) /\ UNCHANGED dExit
       ELSE /\ DeployExit(1)
            /\ UNCHANGED <<SERVICE_NAME, RETRY_COUNT, dOutcomes, dSleeps, dRet>>
    /\ UNCHANGED <<dPre, MEMORY_SIZE, WAIT_TIME>>
    /\ UNCHANGED <<mvars, pvars, cvars, qvars>>

\* DeployLoopTest that also enters the loop when RETRY_COUNT = MAX_RETRIES
DeployLoopTest_Inclusive ==
    /\ dPc = "loop"
    /\ IF RETRY_COUNT <= MAX_RETRIES
       THEN dPc' = "deploy" /\ UNCHANGED dRet
       ELSE dPc' = "returned" /\ dRet' = 1
    /\ UNCHANGED <<dPre, SERVICE_NAME, RETRY_COUNT, MEMORY_SIZE, dOutcomes, dSleeps,
                   WAIT_TIME, dExit>>
    /\ UNCHANGED <<mvars, pvars, cvars, qvars>>

\* deploy_service line 308 and lines 341-342: the loop test, and the return
\* after the loop
DeployLoopTest ==
    /\ dPc = "loop"
    /\ IF RETRY_COUNT < MAX_RETRIES
       THEN dPc' = "deploy" /\ UNCHANGED dRet
       ELSE dPc' = "returned" /\ dRet' = 1
    /\ UNCHANGED <<dPre, SERVICE_NAME, RETRY_COUNT, MEMORY_SIZE, dOutcomes, dSleeps,
                   WAIT_TIME, dExit>>
    /\ UNCHANGED <<mvars, pvars, cvars, qvars>>

\* deploy_service lines 309-338: one gcloud run deploy and what follows it
DeployAttempt ==
    /\ dPc = "deploy"
    /\ MEMORY_SIZE' = MemoryFor(SERVICE_NAME)
    /\ \E status \in {0, 1} :
         /\ dOutcomes' = Append(dOutcomes, status)
         /\ IF status = 0
            THEN /\ dRet' = 0
                 /\ dPc' = "returned"
                 /\ UNCHANGED RETRY_COUNT
            ELSE /\ RETRY_COUNT' = RETRY_COUNT + 1
                 /\ dPc' = IF RETRY_COUNT + 1 < MAX_RETRIES THEN "sleep" ELSE "loop"
                 /\ UNCHANGED dRet
    /\ UNCHANGED <<dPre, SERVICE_NAME, dSleeps, WAIT_TIME, dExit>>
    /\ UNCHANGED <<mvars, pvars, cvars, qvars>>

\* deploy_service line 336: sleep 10
DeploySleep ==
    /\ dPc = "sleep"
    /\ dSleeps' = dSleeps + 1
    /\ dPc' = "loop"
    /\ UNCHANGED <<dPre, SERVICE_NAME, RETRY_COUNT, MEMORY_SIZE, dOutcomes, dRet,
                   WAIT_TIME, dExit>>
    /\ UNCHANGED <<mvars, pvars, cvars, qvars>>

\* lines 383-391 and 398-406: the caller's if on deploy_service's status
DeployReturned ==
    /\ dPc = "returned"
    /\ IF dRet = 0
       THEN /\ dPc' = "wait"
            /\ WAIT_TIME' = 0
            /\ UNCHANGED dExit
       ELSE /\ DeployExit(1)
            /\ UNCHANGED WAIT_TIME
    /\ UNCHANGED <<dPre, SERVICE_NAME, RETRY_COUNT, MEMORY_SIZE, dOutcomes, dSleeps, dRet>>
    /\ UNCHANGED <<mvars, pvars, cvars, qvars>>

\* wait_for_service lines 352-369, one iteration; a service that is ready
\* lets the script go on to the next service or to the subscriptions, a
\* service that never gets ready ends the script (set -e)
DeployWait ==
    /\ dPc = "wait"
    /\ IF WAIT_TIME < MAX_WAIT
       THEN \E ready \in BOOLEAN :
              IF ready
              THEN IF SERVICE_NAME = ServiceNames[1]
                   THEN DeployCall(ServiceNames[2]) /\ UNCHANGED <<WAIT_TIME, dExit>>
                   ELSE /\ dPc' = "subscriptions"
                        /\ UNCHANGED <<SERVICE_NAME, RETRY_COUNT, dOutcomes, dSleeps,
                                       dRet, WAIT_TIME, dExit>>
              ELSE /\ WAIT_TIME' = WAIT_TIME + 5
                   /\ UNCHANGED <<dPc, SERVICE_NAME, RETRY_COUNT, dOutcomes, dSleeps,
                                  dRet, dExit>>
       ELSE /\ DeployExit(1)
            /\ UNCHANGED <<SERVICE_NAME, RETRY_COUNT, dOutcomes, dSleeps, dRet, WAIT_TIME>>
    /\ UNCHANGED <<dPre, MEMORY_SIZE>>
    /\ UNCHANGED <<mvars, pvars, cvars, qvars>>

\* lines 408-510: the subscriptions and the summary, under set -e
DeployFinish ==
    /\ dPc = "subscriptions"
    /\ \E status \in {0, 1} : DeployExit(status)
    /\ UNCHANGED <<dPre, SERVICE_NAME, RETRY_COUNT, MEMORY_SIZE, dOutcomes, dSleeps,
                   dRet, WAIT_TIME>>
    /\ UNCHANGED <<mvars, pvars, cvars, qvars>>

DeployInit ==
    /\ dPre \in Prerequisites
    /\ dPc = "verify"
    /\ SERVICE_NAME = ""
    /\ RETRY_COUNT = 0
    /\ MEMORY_SIZE = ""
    /\ dOutcomes = <<>>
    /\ dSleeps = 0
    /\ dRet = -1
    /\ WAIT_TIME = 0
    /\ dExit = -1
    /\ MapperIdle
    /\ ProcessorIdle
    /\ ConcurrentIdle
    /\ PipelineIdle

DeployNext ==
    \/ DeployVerify
    \/ DeployLoopTest
    \/ DeployAttempt
    \/ DeploySleep
    \/ DeployReturned
    \/ DeployWait
    \/ DeployFinish

\* one run of the deployment script; bash goes on to its next command, and
\* every gcloud and sleep command returns
DeploySpec == DeployInit /\ [][DeployNext]_vars /\ WF_vars(DeployNext)

\* ---------------------------------------------------- concurrent invocations
\* The platform runs several invocations of one handler in one process.
\* Each has its own locals (cInv[k]); the package variables are the only
\* state they share. The fan-out of a mapper invocation is taken one link
\* after the other here; its interleavings are those of MapperSpec.
Invocations == {1, 2}

Handlers == {"mapper", "processor"}

\* what invocation k is asked to do: the messages of different invocations
\* differ in every field that is not empty
CDomain(k) == IF k = 1 THEN "example.com" ELSE "example.org"
CJob(k) == "job-" \o ToString(k)
CUrl(k) == IF k = 1 THEN "https://example.com/a" ELSE "https://example.com/b"

CMessages(h, k) ==
    IF h = "mapper"
    THEN [domain : {CDomain(k)}, uid : {"", CJob(k)}]
    ELSE [url : {CUrl(k)}, uid : {"", CJob(k)}, domain : {"", CDomain(k)}]

CRequest(msg) ==
    [method |-> "POST", body |-> QueueBody([kind |-> "object", val |-> msg])]

\* the locals of an invocation that has received its request
CStart(h, msg) ==
    [handler |-> h, req |-> CRequest(msg), pc |-> "start", d |-> msg,
     links |-> <<>>, next |-> 1, errs |-> <<>>, out |-> NoOutput, resp |-> 0]

\* CReceive with the parsed message d kept in a package variable
CReceive_SharedD(k) ==
    /\ cInv[k].pc = "start"
    /\ LET inv == cInv[k]
           a == IF inv.handler = "mapper" THEN MapperAdmit(inv.req)
                ELSE ProcessorAdmit(inv.req)
       IN  IF a.code # 0
           THEN cInv' = [cInv EXCEPT ![k].pc = "done", ![k].resp = a.code]
           ELSE IF inv.handler = "mapper"
           THEN \E now \in 1..MaxTime, rnd \in 0..MaxRand :
                  cInv' = [j \in Invocations |->
                             IF j = k
                             THEN [cInv[j] EXCEPT !.d = withUID(a.d, now, rnd),
                                                  !.pc = "discover"]
                             ELSE [cInv[j] EXCEPT !.d = withUID(a.d, now, rnd)]]
           ELSE cInv' = [j \in Invocations |->
                           IF j = k
                           THEN [cInv[j] EXCEPT !.d = a.d, !.pc = "fetch"]
                           ELSE [cInv[j] EXCEPT !.d = a.d]]
    /\ UNCHANGED <<cTopic, mvars, pvars, dvars, qvars>>

\* httpHandler and the head of ProcessPubSubPush, as in MapperReceive and
\* ProcessorReceive: d is a local of the invocation
CReceive(k) ==
    /\ cInv[k].pc = "start"
    /\ LET inv == cInv[k]
           a == IF inv.handler = "mapper" THEN MapperAdmit(inv.req)
                ELSE ProcessorAdmit(inv.req)
       IN  IF a.code # 0
           THEN cInv' = [cInv EXCEPT ![k].pc = "done", ![k].resp = a.code]
           ELSE IF inv.handler = "mapper"
           THEN \E now \in 1..MaxTime, rnd \in 0..MaxRand :
                  cInv' = [cInv EXCEPT ![k].d = withUID(a.d, now, rnd),
                                       ![k].pc = "discover"]
           ELSE cInv' = [cInv EXCEPT ![k].d = a.d, ![k].pc = "fetch"]
    /\ UNCHANGED <<cTopic, mvars, pvars, dvars, qvars>>

\* mapper, ProcessPubSubPush lines 106-111
CDiscover(k) ==
    /\ cInv[k].pc = "discover"
    /\ \E r \in {a \in ApiResponses : NoDuplicates(a.links)} :
         LET res == callFirecrawlAPI(r)
         IN  IF res.err # Nil
             THEN cInv' = [cInv EXCEPT ![k].pc = "done", ![k].resp = StatusFor(res.err)]
             ELSE cInv' = [cInv EXCEPT ![k].pc = "newclient", ![k].links = res.links]
    /\ UNCHANGED <<cTopic, mvars, pvars, dvars, qvars>>

\* processor, convertURLToMarkdown and ProcessPubSubPush lines 98-120: the
\* package variables crawlerID and domainToCrawl are read
CFetch(k) ==
    /\ cInv[k].pc = "fetch"
    /\ \E t \in Targets, now \in 1..MaxTime :
         cInv' = [cInv EXCEPT
                    ![k].out = OutputMessage(cInv[k].d, convertURLToMarkdown(t), now,
                                             crawlerID, domainToCrawl),
                    ![k].pc = "newclient"]
    /\ UNCHANGED <<cTopic, mvars, pvars, dvars, qvars>>

\* pubsub.NewClient of either handler; the locals of a returned invocation
\* are gone
CNewClient(k) ==
    /\ cInv[k].pc = "newclient"
    /\ \E ok \in BOOLEAN :
         IF ok
         THEN cInv' = [cInv EXCEPT ![k].pc = "publish"]
         ELSE cInv' = [cInv EXCEPT ![k].pc = "done", ![k].out = NoOutput,
                                   ![k].resp = StatusFor("pubsub: dial error")]
    /\ UNCHANGED <<cTopic, mvars, pvars, dvars, qvars>>

\* mapper, publishLinks lines 137-169: the publish of the next link, or the
\* return after the last one
CPublishLink(k) ==
    /\ cInv[k].pc = "publish"
    /\ cInv[k].handler = "mapper"
    /\ LET inv == cInv[k]
       IN  IF inv.next <= Len(inv.links)
           THEN \E ok \in BOOLEAN :
                  IF ok
                  THEN /\ cTopic' = cTopic \cup
                            {[by |-> k,
                              msg |-> URLMessage(loopLink(inv.links, inv.next),
                                                 inv.d.uid, inv.d.domain)]}
                       /\ cInv' = [cInv EXCEPT ![k].next = inv.next + 1]
                  ELSE /\ cInv' = [cInv EXCEPT
                                     ![k].next = inv.next + 1,
                                     ![k].errs = Append(inv.errs,
                                        "failed to publish message for "
                                           \o loopLink(inv.links, inv.next))]
                       /\ UNCHANGED cTopic
           ELSE /\ cInv' = [cInv EXCEPT
                              ![k].pc = "done",
                              ![k].resp = StatusFor(publishLinksResult(inv.errs))]
                /\ UNCHANGED cTopic
    /\ UNCHANGED <<mvars, pvars, dvars, qvars>>

\* processor, ProcessPubSubPush lines 129-140
CPublishResult(k) ==
    /\ cInv[k].pc = "publish"
    /\ cInv[k].handler = "processor"
    /\ \E ok \in BOOLEAN :
         IF ok
         THEN /\ cTopic' = cTopic \cup {[by |-> k, msg |-> cInv[k].out]}
              /\ cInv' = [cInv EXCEPT ![k].pc = "done", ![k].out = NoOutput,
                                      ![k].resp = StatusFor(Nil)]
         ELSE /\ cInv' = [cInv EXCEPT ![k].pc = "done", ![k].out = NoOutput,
                                      ![k].resp = StatusFor("pubsub: publish failed")]
              /\ UNCHANGED cTopic
    /\ UNCHANGED <<mvars, pvars, dvars, qvars>>

ConcurrentInit ==
    /\ \E h \in Handlers :
         /\ cInv \in [Invocations -> UNION {{CStart(h, msg) : msg \in CMessages(h, k)} :
                                              k \in Invocations}]
         \* the mapper's process has no CRAWLER_ID or DOMAIN_TO_CRAWL
         /\ h = "mapper" => pEnv = [CRAWLER_ID |-> "", DOMAIN_TO_CRAWL |-> ""]
    /\ \A k \in Invocations : cInv[k].d \in CMessages(cInv[k].handler, k)
    /\ cTopic = {}
    /\ ProcessorConfig
    /\ pReq = [method |-> "GET", body |-> [envelope |-> FALSE, hasData |-> FALSE, data |-> EmptyBytes]]
    /\ pPc = "idle"
    /\ ProcessorFresh
    /\ pAnswers = {}
    /\ pDelivery = 1
    /\ pPrev = NoProcessorPrev
    /\ ProcessorLive
    /\ MapperIdle
    /\ DeployIdle
    /\ PipelineIdle

ConcurrentNext ==
    \E k \in Invocations :
        \/ CReceive(k)
        \/ CDiscover(k)
        \/ CFetch(k)
        \/ CNewClient(k)
        \/ CPublishLink(k)
        \/ CPublishResult(k)

\* two invocations of one handler, interleaved step by step
ConcurrentSpec == ConcurrentInit /\ [][ConcurrentNext]_vars

\* ------------------------------------------------------------------ pipeline
\* The two handlers behind their queues. One action is one delivery of one
\* message, from the request to the response; the queue delivers a message
\* again until it is answered 200, each time at a later time. The
\* discovery API answers the same link
\* list whenever it answers, and at most MaxFailures calls in all (discovery,
\* client creation, publish) fail.
MaxFailures == 2

\* the queue's view of a message after the handler answered code
QueueAfter(code) == IF code = StatusOK THEN "acked" ELSE "pending"

QueueRequest(t) == [method |-> "POST", body |-> QueueBody(t)]

\* what callFirecrawlAPI may return in this run
PipelineAnswers ==
    {callFirecrawlAPI(r) :
       r \in {x \in ApiResponses : callFirecrawlAPI(x).err # Nil \/ x.links = qLinks}}

\* what convertURLToMarkdown may return
FetchResults == {convertURLToMarkdown(target) : target \in Targets}

\* the part of a CrawlResult that tells which task it answers and how
ResultKey(out) ==
    [url |-> out.url, uid |-> out.uid, domain |-> out.domain, status |-> out.status]

\* the response to the CrawlRequest, after the URLTasks sent were published
MapperAnswer(err, sent) ==
    /\ err # Nil => qFails < MaxFailures
    /\ qFails' = IF err # Nil THEN qFails + 1 ELSE qFails
    /\ qTasks' = qTasks \cup sent
    /\ qCrawl' = [qCrawl EXCEPT !.status = QueueAfter(StatusFor(err))]
    /\ qDeliveries' = qDeliveries + 1

\* time.Now() during the delivery that follows n deliveries
PipelineClock(n) == IF n < MaxTime THEN n + 1 ELSE MaxTime

\* one delivery of the CrawlRequest to the mapper: httpHandler,
\* ProcessPubSubPush, callFirecrawlAPI and publishLinks; the publishes of the
\* links in lost fail
MapperDeliver ==
    /\ qCrawl.status = "pending"
    /\ \E a \in {MapperAdmit(QueueRequest(qCrawl.text))} :
           IF a.code # 0
           THEN /\ qCrawl' = [qCrawl EXCEPT !.status = QueueAfter(a.code)]
                /\ qDeliveries' = qDeliveries + 1
                /\ UNCHANGED <<qTasks, qFails>>
           ELSE \E res \in PipelineAnswers :
                  IF res.err # Nil
                  THEN MapperAnswer(res.err, {})
                  ELSE \E clientOk \in BOOLEAN :
                         IF ~clientOk
                         THEN MapperAnswer("failed to create pubsub client: dial error",
                                           {})
                         ELSE \E rnd \in 0..MaxRand,
                                 lost \in SUBSET {qLinks[i] : i \in 1..Len(qLinks)} :
                                LET d == withUID(a.d, PipelineClock(qDeliveries), rnd)
                                    failed == SelectSeq(res.links, LAMBDA l : l \in lost)
                                    errs == [i \in 1..Len(failed) |->
                                               "failed to publish message for "
                                                  \o failed[i]]
                                    sent == {res.links[i] : i \in 1..Len(res.links)} \ lost
                                IN  MapperAnswer(publishLinksResult(errs),
                                                 {URLMessage(l, d.uid, d.domain) : l \in sent})
    /\ UNCHANGED <<qLinks, qResults, mvars, pvars, dvars, cvars>>

\* one delivery of the URLTask t to the processor: httpHandler,
\* ProcessPubSubPush and convertURLToMarkdown
ProcessorDeliver(t) ==
    /\ t \in qTasks
    /\ \E a \in {ProcessorAdmit(QueueRequest([kind |-> "object", val |-> t]))} :
           IF a.code # 0
           THEN /\ qTasks' = IF QueueAfter(a.code) = "acked" THEN qTasks \ {t}
                             ELSE qTasks
                /\ UNCHANGED <<qResults, qFails>>
           ELSE \E res \in FetchResults, ok \in BOOLEAN :
                  LET out == OutputMessage(a.d, res, PipelineClock(qDeliveries),
                                           crawlerID, domainToCrawl)
                      err == IF ok THEN Nil ELSE "pubsub: publish failed"
                  IN  /\ ~ok => qFails < MaxFailures
                      /\ qFails' = IF ok THEN qFails ELSE qFails + 1
                      /\ qResults' = IF ok THEN qResults \cup {ResultKey(out)}
                                     ELSE qResults
                      /\ qTasks' = IF QueueAfter(StatusFor(err)) = "acked"
                                   THEN qTasks \ {t} ELSE qTasks
    /\ UNCHANGED <<qCrawl, qLinks, qDeliveries, mvars, pvars, dvars, cvars>>

PipelineInit ==
    /\ qCrawl \in [text : MapperTexts, status : {"pending"}]
    /\ qLinks \in {l \in SeqsUpTo(Urls, MaxLinks) : NoDuplicates(l)}
    /\ qTasks = {}
    /\ qResults = {}
    /\ qDeliveries = 0
    /\ qFails = 0
    /\ MapperIdle
    /\ ProcessorIdle
    /\ DeployIdle
    /\ ConcurrentIdle

PipelineNext ==
    \/ MapperDeliver
    \/ \E t \in qTasks : ProcessorDeliver(t)

\* the queues keep delivering what has not been acknowledged
PipelineSpec == PipelineInit /\ [][PipelineNext]_vars /\ WF_vars(PipelineNext)

\* ------------------------------------------------------------------ claims
\* The request carries a CrawlRequest: a POST whose envelope holds a JSON
\* object, base64-encoded once (the queue's encoding) or twice.
MapperCarries ==
    /\ mReq.method = "POST"
    /\ mReq.body.envelope
    /\ mReq.body.hasData
    /\ mReq.body.data.layers \in {1, 2}
    /\ mReq.body.data.text.kind = "object"

CrawlRequest == mReq.body.data.text.val

\* The request is a POST with a parseable envelope
MapperEnvelopeOk ==
    /\ mReq.method = "POST"
    /\ mReq.body.envelope
    /\ mReq.body.hasData => mReq.body.data.layers >= 1

DiscoveryFailed ==
    /\ mApi # <<>>
    /\ LET r == mApi[Len(mApi)]
       IN  r.transport \/ r.code # StatusOK \/ ~r.decodes

DiscoverySucceeded ==
    /\ mApi # <<>>
    /\ LET r == mApi[Len(mApi)]
       IN  ~r.transport /\ r.code = StatusOK /\ r.decodes

\* C1: once the discovery call has failed (transport error, non-200 status
\* or undecodable body) the invocation has answered 500 and has neither
\* attempted nor completed any publish.
DiscoveryFailureNacksWithoutPublish ==
    DiscoveryFailed =>
        /\ mPc = "done"
        /\ mResp = StatusInternalServerError
        /\ mAttempts = 0
        /\ mPublished = <<>>
        /\ mGo = <<>>
        /\ mClient = "none"

DiscoveryFailureWitness ==
    /\ DiscoveryFailed
    /\ mApi[1].code = 503
    /\ mResp = StatusInternalServerError

AnyPublishFailed == \E i \in 1..Len(mGo) : mGo[i].err # Nil

\* C2: when the invocation has returned and at least one of the publish
\* attempts failed (publish or marshal error), the response is 500, however
\* many of the other attempts succeeded.
AnyPublishFailureNacks ==
    (mPc = "done" /\ AnyPublishFailed) =>
        /\ mResp = StatusInternalServerError
        /\ mErr # Nil

AnyPublishFailureWitness ==
    /\ mPc = "done"
    /\ AnyPublishFailed
    /\ Len(mPublished) >= 1
    /\ mResp = StatusInternalServerError

\* C3: for a CrawlRequest without job_id, nothing is called or published
\* before the id is generated; it is generated exactly once, is not empty,
\* and every URLTask published carries it.
GeneratedJobIdShared ==
    (MapperCarries /\ CrawlRequest.uid = "" /\ CrawlRequest.domain # "") =>
        IF mPc = "start"
        THEN mGen = 0 /\ mApi = <<>> /\ mAttempts = 0 /\ mPublished = <<>>
        ELSE /\ mGen = 1
             /\ mD.uid \notin UIDs
             /\ \A k \in 1..Len(mPublished) : mPublished[k].uid = mD.uid

GeneratedJobIdWitness ==
    /\ MapperCarries
    /\ CrawlRequest.uid = ""
    /\ Len(mPublished) >= 2
    /\ mPublished[1].uid = mPublished[2].uid
    /\ mPublished[1].uid # ""

\* C4: for a CrawlRequest with a non-empty job_id X and domain D, the handler
\* keeps both fields as received and every URLTask published carries
\* job_id X and domain D.
GivenJobIdAndDomainPropagated ==
    (MapperCarries /\ CrawlRequest.uid # "" /\ CrawlRequest.domain # "") =>
        /\ mPc # "start" => mD = CrawlRequest
        /\ \A k \in 1..Len(mPublished) :
             /\ mPublished[k].uid = CrawlRequest.uid
             /\ mPublished[k].domain = CrawlRequest.domain

GivenJobIdWitness ==
    /\ MapperCarries
    /\ CrawlRequest.uid = "job-1"
    /\ Len(mPublished) >= 1
    /\ mPublished[1].uid = "job-1"
    /\ mPublished[1].domain = "example.com"

\* C5: a POST with a parseable envelope whose inner payload does not parse,
\* or whose domain is empty, is answered 200 without any discovery call and
\* without any publish.
MalformedCrawlRequestDropped ==
    (MapperEnvelopeOk /\ ~(MapperCarries /\ CrawlRequest.domain # "")) =>
        /\ mApi = <<>>
        /\ mAttempts = 0
        /\ mPublished = <<>>
        /\ mPc = "done" => mResp = StatusOK

EmptyDomainDroppedWitness ==
    /\ MapperCarries
    /\ CrawlRequest.domain = ""
    /\ mPc = "done"
    /\ mResp = StatusOK

Count(seq, x) == Cardinality({k \in 1..Len(seq) : seq[k] = x})

PublishedUrls == [k \in 1..Len(mPublished) |-> mPublished[k].url]

\* C6: after a successful discovery with links L, the i-th publish goroutine
\* works on L[i], no link is published more often than it occurs in L, and
\* when the response is 200 exactly one URLTask per element of L has been
\* confirmed.
FanOutOnePerLink ==
    DiscoverySucceeded =>
        LET L == mApi[Len(mApi)].links
        IN  /\ Len(mGo) <= Len(L)
            /\ mAttempts <= Len(L)
            /\ \A i \in 1..Len(mGo) : mGo[i].l = L[i]
            /\ \A u \in Urls : Count(PublishedUrls, u) <= Count(L, u)
            /\ mResp = StatusOK =>
                 /\ Len(mPublished) = Len(L)
                 /\ \A u \in Urls : Count(PublishedUrls, u) = Count(L, u)

FanOutWitness ==
    /\ DiscoverySucceeded
    /\ mResp = StatusOK
    /\ Len(mPublished) >= 2
    /\ mPublished[1].url # mPublished[2].url

\* The request carries a URLTask
ProcessorCarries ==
    /\ pReq.method = "POST"
    /\ pReq.body.envelope
    /\ pReq.body.hasData
    /\ pReq.body.data.layers \in {1, 2}
    /\ pReq.body.data.text.kind = "object"

URLTask == pReq.body.data.text.val

ProcessorEnvelopeOk ==
    /\ pReq.method = "POST"
    /\ pReq.body.envelope
    /\ pReq.body.hasData => pReq.body.data.layers >= 1

\* errors of marshalling, client creation and publish
PublishSideErrors ==
    {"json: error calling MarshalJSON", "pubsub: dial error", "pubsub: publish failed"}

TargetFailed == pFetches = 1 /\ (pTarget.transport \/ pTarget.code # StatusOK)

\* C7: when the target of a URLTask with non-empty url is unreachable or
\* answers a non-200 status, the CrawlResult built has status error and the
\* failure description as content; the invocation ends with that result
\* published and 200, or with 500 whose error is a marshal, client or
\* publish error.
FetchFailureStillPublished ==
    (ProcessorCarries /\ URLTask.url # "" /\ TargetFailed) =>
        /\ pOutput.url = URLTask.url
        /\ pOutput.status = "error"
        /\ pOutput.markdown =
             IF pTarget.transport
             THEN "failed to download URL: connection refused"
             ELSE "failed to download URL: status code " \o ToString(pTarget.code)
        /\ pPc = "done" =>
             \/ pResp = StatusOK /\ pPublished = <<pOutput>>
             \/ /\ pResp = StatusInternalServerError
                /\ pErr \in PublishSideErrors
                /\ pPublished = <<>>

FetchFailureWitness ==
    /\ ProcessorCarries
    /\ TargetFailed
    /\ pTarget.code = 404
    /\ pResp = StatusOK
    /\ Len(pPublished) = 1
    /\ pPublished[1].status = "error"

\* the request could not be created, or the fetch, the read of the body or
\* the conversion failed
FetchOrConversionFailed ==
    \/ pFetches = 0
    \/ pTarget.transport
    \/ pTarget.code # StatusOK
    \/ pTarget.fail # "none"

OnlyMarkup(body) == \A i \in 1..Len(body) : IsTag(body[i])

TargetDelivered ==
    /\ pFetches = 1
    /\ ~pTarget.transport
    /\ pTarget.code = StatusOK
    /\ pTarget.body # <<>>
    /\ pTarget.fail # "read"

MalformedURLTaskDropped ==
    (ProcessorEnvelopeOk /\ ~(ProcessorCarries /\ URLTask.url # "")) =>
        /\ pFetches = 0
        /\ pAttempts = 0
        /\ pPublished = <<>>
        /\ pOutput = NoOutput
        /\ pPc = "done" => pResp = StatusOK

EmptyUrlDroppedWitness ==
    /\ ProcessorCarries
    /\ URLTask.url = ""
    /\ pPc = "done"
    /\ pResp = StatusOK

\* C11: an invocation on a URLTask with non-empty url answers 200 or 500;
\* 200 only with exactly one CrawlResult for that url published and
\* confirmed; 500 exactly when marshalling, client creation or the publish
\* failed, and then nothing is published.
ResultNeverSilentlyDropped ==
    (ProcessorCarries /\ URLTask.url # "" /\ pPc = "done") =>
        /\ pResp \in {StatusOK, StatusInternalServerError}
        /\ pResp = StatusOK =>
             /\ pPublished = <<pOutput>>
             /\ pPublished[1].url = URLTask.url
        /\ pResp = StatusInternalServerError <=> pErr \in PublishSideErrors
        /\ pResp = StatusInternalServerError => pPublished = <<>>

PublishFailureWitness ==
    /\ ProcessorCarries
    /\ pPc = "done"
    /\ pTarget.code = StatusOK
    /\ pClient = "closed"
    /\ pErr = "pubsub: publish failed"
    /\ pResp = StatusInternalServerError

\* C12 as stated: on every published CrawlResult the url is the task's, and
\* job_id and domain are the task's or the literal "unknown" when the task
\* has none.
ResultEchoesTaskOrUnknown ==
    (ProcessorCarries /\ URLTask.url # "") =>
        \A k \in 1..Len(pPublished) :
            /\ pPublished[k].url = URLTask.url
            /\ pPublished[k].uid = IF URLTask.uid = "" THEN "unknown" ELSE URLTask.uid
            /\ pPublished[k].domain =
                 IF URLTask.domain = "" THEN "unknown" ELSE URLTask.domain

\* C12 amended: on every published CrawlResult the url is the task's, the
\* job_id is the task's or "unknown" when the task has none, and the domain
\* is the task's or, when the task has none, the configured default domain
\* (DOMAIN_TO_CRAWL), which is "unknown" only when none is configured.
ResultEchoesTaskOrDefault ==
    (ProcessorCarries /\ URLTask.url # "") =>
        \A k \in 1..Len(pPublished) :
            /\ pPublished[k].url = URLTask.url
            /\ pPublished[k].uid = IF URLTask.uid = "" THEN "unknown" ELSE URLTask.uid
            /\ pPublished[k].domain =
                 IF URLTask.domain # "" THEN URLTask.domain
                 ELSE IF pEnv.DOMAIN_TO_CRAWL # "" THEN pEnv.DOMAIN_TO_CRAWL
                 ELSE "unknown"

ConfiguredDefaultDomainWitness ==
    /\ ProcessorCarries
    /\ URLTask.domain = ""
    /\ URLTask.uid = ""
    /\ pEnv.DOMAIN_TO_CRAWL = "configured"
    /\ Len(pPublished) = 1
    /\ pPublished[1].domain = "configured"
    /\ pPublished[1].uid = "unknown"

\* C13: when the same URLTask is processed twice and the target answers the
\* same way both times, the two published CrawlResults agree in url, status,
\* job_id, domain, crawler_id and content.
RedeliveredResultSameButTimestamp ==
    (pDelivery = 2 /\ Len(pPrev.published) = 1 /\ Len(pPublished) = 1) =>
        LET a == pPrev.published[1]
            b == pPublished[1]
        IN  /\ a.url = b.url
            /\ a.status = b.status
            /\ a.uid = b.uid
            /\ a.domain = b.domain
            /\ a.crawler_id = b.crawler_id
            /\ a.markdown = b.markdown

RedeliveredResultWitness ==
    /\ pDelivery = 2
    /\ Len(pPrev.published) = 1
    /\ Len(pPublished) = 1
    /\ pPrev.published[1].timestamp # pPublished[1].timestamp
    /\ pPublished[1].status = "success"

\* C14 as stated: an invocation that answers 200 has published all of its
\* output messages, and an invocation that answers 500 has published none.
InvocationAtomic ==
    /\ (mResp = StatusOK /\ DiscoverySucceeded) => Len(mPublished) = Len(mLinks)
    /\ mResp = StatusInternalServerError => mPublished = <<>>
    /\ (pResp = StatusOK /\ ProcessorCarries /\ URLTask.url # "") => Len(pPublished) = 1
    /\ pResp = StatusInternalServerError => pPublished = <<>>

\* C14 amended: an invocation that answers 200 has published all of its
\* output messages; a processor invocation that answers 500 has published
\* none; a mapper invocation that answers 500 has published none or only
\* some of the discovered links, never all of them.
InvocationAllOrShortfall ==
    /\ (mResp = StatusOK /\ DiscoverySucceeded) => Len(mPublished) = Len(mLinks)
    /\ mResp = StatusInternalServerError =>
         mPublished = <<>> \/ Len(mPublished) < Len(mLinks)
    /\ (pResp = StatusOK /\ ProcessorCarries /\ URLTask.url # "") => Len(pPublished) = 1
    /\ pResp = StatusInternalServerError => pPublished = <<>>

PartialFanOutWitness ==
    /\ mPc = "done"
    /\ mClient = "closed"
    /\ mResp = StatusInternalServerError
    /\ Len(mPublished) >= 1
    /\ Len(mPublished) < Len(mLinks)

Range(seq) == {seq[k] : k \in 1..Len(seq)}

UrlAndDomain(msgs) == {[url |-> m.url, domain |-> m.domain] : m \in msgs}

\* the second delivery has published a URLTask for every link and the
\* first delivery had constructed one for every link
BothDeliveriesComplete ==
    /\ mDelivery = 2
    /\ mPc = "done"
    /\ mResp = StatusOK
    /\ DiscoverySucceeded
    /\ Cardinality(mPrev.tasks) = Len(mLinks)

\* C15 as stated: with the same discovery result, the URLTasks published on
\* the second delivery equal, field for field, those constructed on the
\* first, whether or not the CrawlRequest carried a job_id.
RedeliveryRebuildsIdentically ==
    BothDeliveriesComplete => Range(mPublished) = mPrev.tasks

\* C15 amended: with the same discovery result, the URLTasks published on
\* the second delivery equal those constructed on the first field for field
\* when the CrawlRequest carried a job_id; when it carried none they agree
\* in url and domain, and each delivery uses one generated job_id of its own.
RedeliveryRebuildsUpToGeneratedId ==
    BothDeliveriesComplete =>
        IF CrawlRequest.uid # ""
        THEN Range(mPublished) = mPrev.tasks
        ELSE /\ UrlAndDomain(Range(mPublished)) = UrlAndDomain(mPrev.tasks)
             /\ \A a \in Range(mPublished) : a.uid = mD.uid /\ a.uid \notin UIDs
             /\ \A a, b \in mPrev.tasks : a.uid = b.uid /\ a.uid \notin UIDs

RegeneratedIdWitness ==
    /\ BothDeliveriesComplete
    /\ CrawlRequest.uid = ""
    /\ Len(mPublished) = 2
    /\ \E a \in mPrev.tasks : a.uid # mPublished[1].uid

MarshalFailed(g) == g.err = "failed to marshal message for " \o g.l

\* C16: on the second delivery the discovery API is called again, and when
\* the fan-out has run, every discovered link has had its own publish
\* attempt (unless its marshal failed), whether or not the first delivery
\* had published it.
RedeliveryRepublishesAllLinks ==
    /\ (mDelivery = 2 /\ mPc \in {"newclient", "spawn", "wait"}) => Len(mApi) = 1
    /\ (mDelivery = 2 /\ mPc = "done" /\ mClient = "closed") =>
         /\ Len(mApi) = 1
         /\ Len(mGo) = Len(mLinks)
         /\ \A i \in 1..Len(mGo) :
              /\ mGo[i].l = mLinks[i]
              /\ \/ MarshalFailed(mGo[i])
                 \/ [url |-> mLinks[i], uid |-> mD.uid, domain |-> mD.domain] \in mSent
         /\ mAttempts + Cardinality({i \in 1..Len(mGo) : MarshalFailed(mGo[i])})
              = Len(mLinks)

RepublishedLinkWitness ==
    /\ mDelivery = 2
    /\ mPrev.resp = StatusInternalServerError
    /\ Len(mPrev.published) = 1
    /\ Len(mPrev.links) = 2
    /\ mPc = "done"
    /\ \E k \in 1..Len(mPublished) : mPublished[k].url = mPrev.published[1].url

\* the mapper invocation has done no message processing
MapperUntouched ==
    /\ mD = NoInput
    /\ mGen = 0
    /\ mApi = <<>>
    /\ mLinks = <<>>
    /\ mClient = "none"
    /\ mGo = <<>>
    /\ mAttempts = 0
    /\ mPublished = <<>>
    /\ mErr = Nil

\* the processor invocation has done no message processing
ProcessorUntouched ==
    /\ pD = NoTask
    /\ pFetches = 0
    /\ pTarget = NoTarget
    /\ pOutput = NoOutput
    /\ pClient = "none"
    /\ pAttempts = 0
    /\ pPublished = <<>>
    /\ pErr = Nil

\* C17: for a POST with a parseable envelope, either handler answers 200
\* exactly when processing returned no error (a dropped malformed inner
\* payload included), 500 exactly when it returned an error, and nothing else.
StatusMirrorsProcessingError ==
    /\ (mPc = "done" /\ MapperEnvelopeOk) =>
         /\ mResp \in {StatusOK, StatusInternalServerError}
         /\ mResp = StatusOK <=> mErr = Nil
         /\ mResp = StatusInternalServerError <=> mErr # Nil
         /\ ~MapperCarries => mResp = StatusOK
         /\ (DiscoveryFailed \/ AnyPublishFailed) => mErr # Nil
    /\ (pPc = "done" /\ ProcessorEnvelopeOk) =>
         /\ pResp \in {StatusOK, StatusInternalServerError}
         /\ pResp = StatusOK <=> pErr = Nil
         /\ pResp = StatusInternalServerError <=> pErr # Nil
         /\ ~ProcessorCarries => pResp = StatusOK

StatusMirrorsWitness ==
    \/ /\ mPc = "done"
       /\ MapperEnvelopeOk
       /\ mReq.body.hasData
       /\ mReq.body.data.text.kind = "garbage"
       /\ mErr = Nil
       /\ mResp = StatusOK
    \/ /\ pPc = "done"
       /\ ProcessorEnvelopeOk
       /\ pErr \in PublishSideErrors
       /\ pResp = StatusInternalServerError

\* C18: a request whose method is not POST is answered 405 and is never
\* processed: its body is not parsed, nothing is discovered, fetched or
\* published.
NonPostRejectedUnprocessed ==
    /\ (mPc # "idle" /\ mReq.method # "POST") =>
         /\ mPc \in {"start", "done"}
         /\ MapperUntouched
         /\ mPc = "done" => mResp = StatusMethodNotAllowed
    /\ (pPc # "idle" /\ pReq.method # "POST") =>
         /\ pPc \in {"start", "done"}
         /\ ProcessorUntouched
         /\ pPc = "done" => pResp = StatusMethodNotAllowed

NonPostWitness ==
    \/ /\ mPc = "done"
       /\ mReq.method = "GET"
       /\ mReq.body.envelope /\ mReq.body.hasData
       /\ mReq.body.data.layers = 1
       /\ mReq.body.data.text.kind = "object"
       /\ mReq.body.data.text.val.domain # ""
       /\ mResp = StatusMethodNotAllowed
    \/ /\ pPc = "done"
       /\ pReq.method = "GET"
       /\ pReq.body.envelope /\ pReq.body.hasData
       /\ pReq.body.data.layers = 1
       /\ pReq.body.data.text.kind = "object"
       /\ pReq.body.data.text.val.url # ""
       /\ pResp = StatusMethodNotAllowed

\* C19: a POST whose body does not parse as the push envelope is answered
\* 400, never 200 or 500, and is never processed: nothing is discovered,
\* fetched or published.
UnparseableEnvelopeRejected ==
    /\ (mPc # "idle" /\ mReq.method = "POST" /\ ~MapperEnvelopeOk) =>
         /\ mPc \in {"start", "done"}
         /\ MapperUntouched
         /\ mPc = "done" => mResp = StatusBadRequest
    /\ (pPc # "idle" /\ pReq.method = "POST" /\ ~ProcessorEnvelopeOk) =>
         /\ pPc \in {"start", "done"}
         /\ ProcessorUntouched
         /\ pPc = "done" => pResp = StatusBadRequest

UnparseableEnvelopeWitness ==
    \/ /\ mPc = "done"
       /\ mReq.method = "POST"
       /\ ~mReq.body.envelope
       /\ mResp = StatusBadRequest
    \/ /\ pPc = "done"
       /\ pReq.method = "POST"
       /\ ~pReq.body.envelope
       /\ pResp = StatusBadRequest

\* C20 as stated: a POST whose envelope's data field holds a JSON payload,
\* base64-encoded or raw, is never refused as a bad request, and the message
\* the handler goes on with is the payload's.
RawOrBase64PayloadAccepted ==
    /\ ( /\ mPc = "done"
         /\ mReq.method = "POST"
         /\ mReq.body.envelope /\ mReq.body.hasData
         /\ mReq.body.data.layers \in {0, 1}
         /\ mReq.body.data.text.kind = "object" ) =>
         /\ mResp # StatusBadRequest
         /\ mD.domain = CrawlRequest.domain
    /\ ( /\ pPc = "done"
         /\ pReq.method = "POST"
         /\ pReq.body.envelope /\ pReq.body.hasData
         /\ pReq.body.data.layers \in {0, 1}
         /\ pReq.body.data.text.kind = "object" ) =>
         /\ pResp # StatusBadRequest
         /\ pD = URLTask

\* C21: within one invocation the mapper calls the discovery API at most
\* once and makes at most one publish attempt per discovered link, and the
\* processor makes at most one fetch and at most one publish.
NoInternalRetries ==
    /\ Len(mApi) <= 1
    /\ Len(mGo) <= Len(mLinks)
    /\ \A i \in 1..Len(mGo) : mGo[i].l = mLinks[i]
    /\ mAttempts = Cardinality({i \in 1..Len(mGo) :
                                  mGo[i].pc # "marshal" /\ ~MarshalFailed(mGo[i])})
    /\ Len(mPublished) <= mAttempts
    /\ pFetches <= 1
    /\ pAttempts <= 1
    /\ Len(pPublished) <= pAttempts

FailureNotRetriedWitness ==
    \/ /\ mPc = "done"
       /\ Len(mLinks) = 2
       /\ mAttempts = 2
       /\ Len(mPublished) = 0
       /\ Len(mApi) = 1
    \/ /\ pPc = "done"
       /\ pFetches = 1
       /\ pTarget.code = 404
       /\ pAttempts = 1
       /\ pResp = StatusInternalServerError

ZeroLinks == DiscoverySucceeded /\ mLinks = <<>> /\ mPc = "done"

\* C24 as stated: when the discovery API returned success with zero links,
\* the invocation answers 200 and has published nothing.
ZeroLinksAcknowledged ==
    ZeroLinks => mResp = StatusOK /\ mPublished = <<>>

\* C24 amended: when the discovery API returned success with zero links, the
\* invocation publishes nothing and starts no publish attempt; it answers 200
\* when the queue client could be created, and 500 when it could not.
ZeroLinksAcknowledgedIfClient ==
    ZeroLinks =>
        /\ mPublished = <<>>
        /\ mAttempts = 0
        /\ mGo = <<>>
        /\ mResp \in {StatusOK, StatusInternalServerError}
        /\ mResp = StatusOK <=> mClient = "closed"
        /\ mResp = StatusInternalServerError <=>
             (mClient = "none" /\ mErr = "failed to create pubsub client: dial error")

ZeroLinksWitness ==
    /\ ZeroLinks
    /\ mApi[1].code = StatusOK
    /\ mClient = "closed"
    /\ mResp = StatusOK

\* C25: the defaults are those of the environment at startup, "unknown"
\* when unset; every CrawlResult carries the crawler identity, and the
\* default domain when its URLTask has none; no step changes the defaults.
DefaultsFixedAtStartup ==
    /\ [](/\ crawlerID = (IF pEnv.CRAWLER_ID = "" THEN "unknown" ELSE pEnv.CRAWLER_ID)
          /\ domainToCrawl = (IF pEnv.DOMAIN_TO_CRAWL = "" THEN "unknown"
                              ELSE pEnv.DOMAIN_TO_CRAWL)
          /\ \A k \in 1..Len(pPublished) :
               /\ pPublished[k].crawler_id = crawlerID
               /\ URLTask.domain = "" => pPublished[k].domain = domainToCrawl
               /\ URLTask.domain # "" => pPublished[k].domain = URLTask.domain)
    /\ [][/\ pEnv' = pEnv
          /\ crawlerID' = crawlerID
          /\ domainToCrawl' = domainToCrawl]_vars

UnknownDefaultsWitness ==
    /\ pPc = "done"
    /\ Len(pPublished) = 1
    /\ URLTask.domain = ""
    /\ pEnv.DOMAIN_TO_CRAWL = ""
    /\ pEnv.CRAWLER_ID = ""
    /\ pPublished[1].domain = "unknown"
    /\ pPublished[1].crawler_id = "unknown"

AllAttemptsCompleted == \A i \in 1..Len(mGo) : mGo[i].pc = "done"

\* C26: the outcome of the fan-out is decided only when every goroutine has
\* completed; when all have completed the barrier can pass, and until then
\* some step of the invocation is always possible (no deadlock on the wait
\* group or the mutex).
FanOutBarrier ==
    /\ (mPc = "done" /\ mClient = "closed") =>
         Len(mGo) = Len(mLinks) /\ AllAttemptsCompleted /\ mWg = 0 /\ mMu = 0
    /\ (mPc = "wait" /\ AllAttemptsCompleted) => ENABLED MapperJoin
    /\ mPc \in {"spawn", "wait"} => ENABLED MapperNext

MutexContentionWitness ==
    /\ mPc = "wait"
    /\ \E i, j \in 1..Len(mGo) :
         /\ mGo[i].pc = "lock"
         /\ mGo[j].pc \in {"read", "write"}
         /\ mMu = j

FailedAttempts == {i \in 1..Len(mGo) : mGo[i].err # Nil}

\* C27: every failed attempt is recorded exactly once in errs: the recorded
\* errors are those of the goroutines that failed and have completed, and
\* after the barrier publishLinks returns an error exactly when some
\* attempt failed.
ErrorsRecordedExactlyOnce ==
    /\ Len(mErrs) = Cardinality({i \in FailedAttempts : mGo[i].pc = "done"})
    /\ \A i \in FailedAttempts :
         mGo[i].pc = "done" =>
            Count(mErrs, mGo[i].err) =
               Cardinality({j \in FailedAttempts :
                              mGo[j].pc = "done" /\ mGo[j].err = mGo[i].err})
    /\ (mPc = "done" /\ mClient = "closed") =>
         /\ Len(mErrs) = Cardinality(FailedAttempts)
         /\ mErr # Nil <=> Cardinality(FailedAttempts) > 0

TwoErrorsRecordedWitness ==
    /\ mPc = "done"
    /\ mClient = "closed"
    /\ Len(mErrs) = 2
    /\ Len(mPublished) = 0
    /\ mErrs[1] # mErrs[2]

\* C23 as stated: an invocation that has returned holds no open queue
\* client, no unstopped publish topic and no open HTTP response body,
\* whatever path it returned by.
AllClientsReleased ==
    /\ mPc = "done" => mClient # "open" /\ mTopic # "open" /\ mBody # "open"
    /\ pPc = "done" => pClient # "open" /\ pTopic # "open" /\ pBody # "open"

\* C22 as stated: once the request is cancelled, no discovery call,
\* publish call or page fetch stays in flight: the call the invocation (or
\* a publish goroutine) waits in can end, whether or not the peer answers.
CancelledCallsEnd ==
    /\ (mCtx = "cancelled" /\ mPc = "discover") => ENABLED MapperCancelNext
    /\ \A i \in 1..Len(mGo) :
         (mCtx = "cancelled" /\ mGo[i].pc = "get") => ENABLED GoCancelStep(i)
    /\ (pCtx = "cancelled" /\ pPc \in {"fetch", "get"}) => ENABLED ProcessorCancelNext

\* the same for the calls that are made with the request's context (the
\* discovery call and the Get of both handlers' publishes): this holds
ContextBoundCallsEnd ==
    /\ (mCtx = "cancelled" /\ mPc = "discover") => ENABLED MapperCancelNext
    /\ \A i \in 1..Len(mGo) :
         (mCtx = "cancelled" /\ mGo[i].pc = "get") => ENABLED GoCancelStep(i)
    /\ (pCtx = "cancelled" /\ pPc = "get") => ENABLED ProcessorCancelNext

InDeployService == dPc \in {"loop", "deploy", "sleep"}

Failures(outcomes) == {k \in 1..Len(outcomes) : outcomes[k] # 0}

\* C30: deploy_service runs gcloud run deploy at most 3 times; every attempt
\* but the last has failed; it returns 0 right after a successful attempt
\* and 1 only after 3 failed attempts; it sleeps only between attempts,
\* never after the third failure; and it always returns.
DeployServiceBounded ==
    /\ [](/\ Len(dOutcomes) <= 3
          /\ \A k \in 1..(Len(dOutcomes) - 1) : dOutcomes[k] # 0
          /\ dRet \in {-1, 0, 1}
          /\ dRet = 0 <=> (dOutcomes # <<>> /\ dOutcomes[Len(dOutcomes)] = 0)
          /\ dRet = 1 => Cardinality(Failures(dOutcomes)) = 3
          /\ (Cardinality(Failures(dOutcomes)) = 3 /\ dPc # "loop") => dRet = 1
          /\ dSleeps <= 2
          /\ dSleeps <= Cardinality(Failures(dOutcomes))
          /\ dRet # -1 => ~InDeployService)
    /\ (InDeployService ~> dPc = "returned")

ThirdAttemptSucceedsWitness ==
    /\ dPc = "returned"
    /\ SERVICE_NAME = "page-processor"
    /\ dOutcomes = <<1, 1, 0>>
    /\ dSleeps = 2
    /\ dRet = 0

\* the message invocation k was delivered
COwn(k) == cInv[k].req.body.data.text.val

\* C28: whatever the interleaving, a message published by an invocation
\* carries the url, job_id and domain of that invocation's own request (or
\* the defaults and the job_id it generated itself), and no step of a
\* handler changes a package variable.
NoCrossInvocationData ==
    /\ [](\A e \in cTopic :
            LET inv == cInv[e.by]
                own == COwn(e.by)
            IN  IF inv.handler = "mapper"
                THEN /\ e.msg.domain = own.domain
                     /\ own.uid # "" => e.msg.uid = own.uid
                     /\ own.uid = "" => e.msg.uid = inv.d.uid /\ e.msg.uid \notin {"", CJob(1), CJob(2)}
                     /\ \E i \in 1..Len(inv.links) : e.msg.url = inv.links[i]
                ELSE /\ e.msg.url = own.url
                     /\ e.msg.uid = (IF own.uid = "" THEN "unknown" ELSE own.uid)
                     /\ e.msg.domain = (IF own.domain = "" THEN domainToCrawl
                                        ELSE own.domain)
                     /\ e.msg.crawler_id = crawlerID)
    /\ [][/\ pEnv' = pEnv
          /\ crawlerID' = crawlerID
          /\ domainToCrawl' = domainToCrawl]_vars

InterleavedPublishesWitness ==
    /\ \A k \in Invocations : cInv[k].pc = "publish" /\ cInv[k].next = 2
    /\ \E e1, e2 \in cTopic :
         /\ e1.by = 1
         /\ e2.by = 2
         /\ e1.msg.uid = CJob(1)
         /\ e2.msg.uid = CJob(2)
         /\ e1.msg.domain # e2.msg.domain

\* the inbound message is a CrawlRequest with a non-empty domain
ValidCrawl ==
    /\ qCrawl.text.kind = "object"
    /\ qCrawl.text.val.domain # ""

EveryLinkHasResult ==
    \A l \in Range(qLinks) : \E r \in qResults : r.url = l

\* nothing is left for the queues to deliver
PipelineQuiet == ~ENABLED PipelineNext

\* what is still to be done, counting a failure that may still happen for
\* more than any number of outstanding messages
PipelineWork ==
    LET most == (MaxFailures + 1) * MaxLinks + 1
    IN  (MaxFailures - qFails) * 2 * most
          + (IF qCrawl.status = "pending" THEN most ELSE 0)
          + Cardinality(qTasks)

\* C29: with redelivery of whatever is answered 500, fair delivery and
\* boundedly many failures, eventually and for good the CrawlRequest and
\* every URLTask are acknowledged and a CrawlRequest with a non-empty domain
\* has a published CrawlResult for every discovered URL; on the way every
\* delivery reduces the work that is left, and the queues fall quiet only
\* in such a state.
PipelineCompletes ==
    /\ <>[](/\ qCrawl.status = "acked"
            /\ qTasks = {}
            /\ ValidCrawl => EveryLinkHasResult)
    /\ [](PipelineQuiet =>
            /\ qCrawl.status = "acked"
            /\ qTasks = {}
            /\ ValidCrawl => EveryLinkHasResult)
    /\ [][PipelineWork' < PipelineWork /\ PipelineWork' >= 0]_vars

CompletedAfterRedeliveriesWitness ==
    /\ ValidCrawl
    /\ Len(qLinks) = 2
    /\ qFails = MaxFailures
    /\ \E r \in qResults : r.status = "error"
    /\ PipelineQuiet
    /\ EveryLinkHasResult

====
